---- MODULE Spec2Model ----
(***************************************************************************)
(* Model of the competitive-edge-engine backend services: the comparator,  *)
(* the metric calculator, the schema validator / normaliser, the AI        *)
(* extraction post-processing and the matcher.                             *)
(*                                                                         *)
(* Python values are tagged records [t, v]:                                *)
(*   None  [t |-> "none",  v |-> <<>>]                                     *)
(*   int   [t |-> "int",   v |-> n]                                        *)
(*   float [t |-> "float", v |-> <<n, d>>]   the rational n/d, d > 0       *)
(*   bool  [t |-> "bool",  v |-> TRUE]                                     *)
(*   str   [t |-> "str",   v |-> "text"]                                   *)
(*   dict  [t |-> "dict",  v |-> [k \in keys |-> value]]                   *)
(* A record (Dict[str, Any]) is a function from its keys to such values;   *)
(* a key is absent when it is not in the DOMAIN.                           *)
(* Results of operations that may raise are [ok |-> BOOLEAN, val |-> ...]. *)
(***************************************************************************)
EXTENDS Integers, Sequences, FiniteSets, TLC

VARIABLES pc, schema, user_data, competitor_data, formula, raw, collab, result,
          comparison_results, price_history

vars == <<pc, schema, user_data, competitor_data, formula, raw, collab, result,
          comparison_results, price_history>>

(***************************************************************************)
(* Bounds of the model.                                                    *)
(***************************************************************************)
\* numeric sample values of record fields range over 0 .. MaxNum
MaxNum == 2
\* formulas are all strings of at most MaxFormulaLen characters of FormulaChars
MaxFormulaLen == 4
\* embedding vectors have components in -MaxCoord .. MaxCoord
MaxCoord == 3

(***************************************************************************)
(* Rational arithmetic: the values of Python floats.                       *)
(***************************************************************************)
Abs(n) == IF n < 0 THEN -n ELSE n

RECURSIVE GCD(_, _)
GCD(a, b) == IF b = 0 THEN a ELSE GCD(b, a % b)

Rat(n, d) ==
    LET g == GCD(Abs(n), Abs(d))
        s == IF d < 0 THEN -1 ELSE 1
    IN  <<(s * n) \div g, (s * d) \div g>>

RInt(n) == <<n, 1>>
RAdd(a, b) == Rat(a[1] * b[2] + b[1] * a[2], a[2] * b[2])
RSub(a, b) == Rat(a[1] * b[2] - b[1] * a[2], a[2] * b[2])
RMul(a, b) == Rat(a[1] * b[1], a[2] * b[2])
RDiv(a, b) == Rat(a[1] * b[2], a[2] * b[1])
RLt(a, b) == a[1] * b[2] < b[1] * a[2]
RLe(a, b) == a[1] * b[2] <= b[1] * a[2]
RAbs(a) == <<Abs(a[1]), a[2]>>
RMax(a, b) == IF RLt(a, b) THEN b ELSE a
RMin(a, b) == IF RLt(b, a) THEN b ELSE a
\* floor and truncation toward zero of a rational
RFloor(a) == a[1] \div a[2]
RTrunc(a) == IF a[1] >= 0 THEN a[1] \div a[2] ELSE -((-a[1]) \div a[2])

(***************************************************************************)
(* Naturals of any size, as little-endian sequences of limbs below 2^15    *)
(* without a leading zero limb (TLC's integers are 32 bits wide).          *)
(***************************************************************************)
Limb == 2^15

RECURSIVE BTrim(_)
BTrim(x) ==
    IF x = <<>> THEN x
    ELSE IF x[Len(x)] = 0 THEN BTrim(SubSeq(x, 1, Len(x) - 1)) ELSE x

RECURSIVE BNat(_)
BNat(n) == IF n = 0 THEN <<>> ELSE <<n % Limb>> \o BNat(n \div Limb)

BLimb(x, i) == IF i <= Len(x) THEN x[i] ELSE 0

RECURSIVE BCmpFrom(_, _, _)
BCmpFrom(x, y, i) ==
    IF i = 0 THEN 0
    ELSE IF x[i] # y[i] THEN (IF x[i] < y[i] THEN -1 ELSE 1)
    ELSE BCmpFrom(x, y, i - 1)

\* -1, 0 or 1 as x is below, equal to or above y
BCmp(x, y) ==
    IF Len(x) # Len(y) THEN (IF Len(x) < Len(y) THEN -1 ELSE 1)
    ELSE BCmpFrom(x, y, Len(x))

RECURSIVE BAddFrom(_, _, _, _)
BAddFrom(x, y, i, carry) ==
    IF i > Len(x) /\ i > Len(y) THEN (IF carry = 0 THEN <<>> ELSE <<carry>>)
    ELSE <<(BLimb(x, i) + BLimb(y, i) + carry) % Limb>>
         \o BAddFrom(x, y, i + 1, (BLimb(x, i) + BLimb(y, i) + carry) \div Limb)

BAdd(x, y) == BAddFrom(x, y, 1, 0)

RECURSIVE BSubFrom(_, _, _, _)
BSubFrom(x, y, i, borrow) ==
    IF i > Len(x) THEN <<>>
    ELSE <<(x[i] - BLimb(y, i) - borrow + Limb) % Limb>>
         \o BSubFrom(x, y, i + 1, IF x[i] - BLimb(y, i) - borrow < 0 THEN 1 ELSE 0)

\* x - y for x >= y
BSub(x, y) == BTrim(BSubFrom(x, y, 1, 0))

RECURSIVE BMulSmallFrom(_, _, _, _)
BMulSmallFrom(x, m, i, carry) ==
    IF i > Len(x) THEN (IF carry = 0 THEN <<>> ELSE <<carry>>)
    ELSE <<(x[i] * m + carry) % Limb>>
         \o BMulSmallFrom(x, m, i + 1, (x[i] * m + carry) \div Limb)

\* x * m for m below 2^15
BMulSmall(x, m) == IF m = 0 THEN <<>> ELSE BMulSmallFrom(x, m, 1, 0)

\* x * 2^(15 k)
BShiftLimbs(x, k) == IF x = <<>> THEN x ELSE [i \in 1..k |-> 0] \o x

RECURSIVE BMulFrom(_, _, _)
BMulFrom(x, y, i) ==
    IF i > Len(y) THEN <<>>
    ELSE BAdd(BShiftLimbs(BMulSmall(x, y[i]), i - 1), BMulFrom(x, y, i + 1))

BMul(x, y) == BMulFrom(x, y, 1)

\* x * 2^k
BShl(x, k) == BShiftLimbs(BMulSmall(x, 2^(k % 15)), k \div 15)

RECURSIVE BDivSmallFrom(_, _, _, _)
BDivSmallFrom(x, m, i, rem) ==
    IF i = 0 THEN <<>>
    ELSE BDivSmallFrom(x, m, i - 1, (rem * Limb + x[i]) % m)
         \o <<(rem * Limb + x[i]) \div m>>

\* x \div 2^k
BShr(x, k) ==
    IF k \div 15 >= Len(x) THEN <<>>
    ELSE BTrim(BDivSmallFrom(SubSeq(x, k \div 15 + 1, Len(x)),
                             2^(k % 15), Len(x) - k \div 15, 0))

\* x % 2^k
BLowBits(x, k) == BSub(x, BShl(BShr(x, k), k))

BOdd(x) == x # <<>> /\ x[1] % 2 = 1

RECURSIVE Bits(_)
Bits(n) == IF n = 0 THEN 0 ELSE 1 + Bits(n \div 2)

\* the number of bits of x
BBitLen(x) == IF x = <<>> THEN 0 ELSE 15 * (Len(x) - 1) + Bits(x[Len(x)])

RECURSIVE TrailingZeroBits(_)
TrailingZeroBits(n) == IF n % 2 = 1 THEN 0 ELSE 1 + TrailingZeroBits(n \div 2)

\* the number of trailing zero bits of x > 0
RECURSIVE BTrailingZeros(_)
BTrailingZeros(x) ==
    IF x[1] = 0 THEN 15 + BTrailingZeros(Tail(x)) ELSE TrailingZeroBits(x[1])

\* one turn of the long division by y: the loop variables are the quotient
\* bits q found so far, what is left r of the dividend, and the bit i to find
BDivBit(st, yi) ==
    IF BCmp(st.r, yi) >= 0
    THEN [q |-> BAdd(BMulSmall(st.q, 2), <<1>>), r |-> BSub(st.r, yi), i |-> st.i - 1]
    ELSE [q |-> BMulSmall(st.q, 2), r |-> st.r, i |-> st.i - 1]

\* the turns for the bits down to lo
RECURSIVE BDivBits(_, _, _)
BDivBits(st, y, lo) ==
    IF st.i < lo THEN st ELSE BDivBits(BDivBit(st, BShl(y, st.i)), y, lo)

\* the turns for all the bits, a limb of them at a time
RECURSIVE BDivLimbs(_, _)
BDivLimbs(st, y) ==
    IF st.i < 0 THEN st ELSE BDivLimbs(BDivBits(st, y, st.i + 1 - 15), y)

\* quotient q and remainder r of x by y > 0
BDivMod(x, y) ==
    BDivLimbs([q |-> <<>>, r |-> x, i |-> 15 * (Len(x) + 1) - 1], y)

\* one turn of the square root of x: the loop variables are the bits r found
\* so far and the bit i to find, cand is r with the bit i set
BSqrtBit(x, st, cand) ==
    [r |-> IF BCmp(BMul(cand, cand), x) <= 0 THEN cand ELSE st.r, i |-> st.i - 1]

RECURSIVE BSqrtBits(_, _, _)
BSqrtBits(x, st, lo) ==
    IF st.i < lo THEN st
    ELSE BSqrtBits(x, BSqrtBit(x, st, BAdd(st.r, BShl(<<1>>, st.i))), lo)

RECURSIVE BSqrtLimbs(_, _)
BSqrtLimbs(x, st) ==
    IF st.i < 0 THEN st.r ELSE BSqrtLimbs(x, BSqrtBits(x, st, st.i + 1 - 15))

\* the integer square root of x
BSqrt(x) == BSqrtLimbs(x, [r |-> <<>>, i |-> 15 * (Len(x) \div 2 + 1) - 1])

(***************************************************************************)
(* Python floats: IEEE 754 binary64 with round-to-nearest-even.  A finite  *)
(* value is [s, m, e] for s * m * 2^e with an odd m below 2^53, zero is    *)
(* [0, <<>>, 0].  Infinities, NaN, subnormals and the sign of zero are not *)
(* modelled: no value of the model gets near the exponent range.           *)
(***************************************************************************)
SignificandBits == 53

FZero == [s |-> 0, m |-> <<>>, e |-> 0]

FCanonAt(s, m, e, z) == [s |-> s, m |-> BShr(m, z), e |-> e + z]
\* s * m * 2^e for an m of at most 53 bits
FCanon(s, m, e) == IF m = <<>> THEN FZero ELSE FCanonAt(s, m, e, BTrailingZeros(m))

FRoundUp(s, q, e, up) == FCanon(s, IF up THEN BAdd(q, <<1>>) ELSE q, e)
FRoundHalf(s, q, e, half, sticky) ==
    FRoundUp(s, q, e, half > 0 \/ (half = 0 /\ (sticky \/ BOdd(q))))
FRoundAt(s, n, e, sticky, sh) ==
    FRoundHalf(s, BShr(n, sh), e + sh,
               BCmp(BLowBits(n, sh), BShl(<<1>>, sh - 1)), sticky)
\* the float nearest to s * (n + f) * 2^e, ties to even, where 0 <= f < 1 and
\* sticky tells f > 0; n has at least 55 bits when sticky
FRound(s, n, e, sticky) ==
    IF BBitLen(n) <= SignificandBits THEN FCanon(s, n, e)
    ELSE FRoundAt(s, n, e, sticky, BBitLen(n) - SignificandBits)

FInt(n) == IF n = 0 THEN FZero ELSE FCanon(IF n < 0 THEN -1 ELSE 1, BNat(IF n < 0 THEN -n ELSE n), 0)
FNeg(a) == [a EXCEPT !.s = -a.s]
FAbs(a) == [a EXCEPT !.s = a.s * a.s]

FMul(a, b) ==
    IF a.s = 0 \/ b.s = 0 THEN FZero
    ELSE FRound(a.s * b.s, BMul(a.m, b.m), a.e + b.e, FALSE)

FDivQ(s, st, e) == FRound(s, st.q, e, st.r # <<>>)
FDivAt(a, b, k) == FDivQ(a.s * b.s, BDivMod(BShl(a.m, k), b.m), a.e - b.e - k)
\* a / b for b # 0
FDiv(a, b) ==
    IF a.s = 0 THEN FZero
    ELSE FDivAt(a, b, IF 56 + BBitLen(b.m) > BBitLen(a.m)
                      THEN 56 + BBitLen(b.m) - BBitLen(a.m) ELSE 0)

FAddAligned(sa, x, sb, y, e) ==
    IF sa = sb THEN FRound(sa, BAdd(x, y), e, FALSE)
    ELSE IF BCmp(x, y) = 0 THEN FZero
    ELSE IF BCmp(x, y) > 0 THEN FRound(sa, BSub(x, y), e, FALSE)
    ELSE FRound(sb, BSub(y, x), e, FALSE)
FAddAt(a, b, e) == FAddAligned(a.s, BShl(a.m, a.e - e), b.s, BShl(b.m, b.e - e), e)
FAdd(a, b) ==
    IF a.s = 0 THEN b
    ELSE IF b.s = 0 THEN a
    ELSE FAddAt(a, b, IF a.e < b.e THEN a.e ELSE b.e)
FSub(a, b) == FAdd(a, FNeg(b))

\* -1, 0 or 1 as a is below, equal to or above b
FCmp(a, b) == FSub(a, b).s
FLt(a, b) == FCmp(a, b) < 0
FLe(a, b) == FCmp(a, b) <= 0
FMax(a, b) == IF FLt(a, b) THEN b ELSE a
FMin(a, b) == IF FLt(b, a) THEN b ELSE a

FSqrtR(n, r, e) == FRound(1, r, e, BMul(r, r) # n)
FSqrtN(n, e) == FSqrtR(n, BSqrt(n), e \div 2)
FSqrtAt(a, k) == FSqrtN(BShl(a.m, k + ((a.e - k) % 2)), a.e - k - ((a.e - k) % 2))
\* a ** 0.5 for a >= 0
FSqrt(a) ==
    IF a.s = 0 THEN FZero
    ELSE FSqrtAt(a, IF BBitLen(a.m) < 110 THEN 110 - BBitLen(a.m) ELSE 0)

\* float of the rational n/d of the model's exact arithmetic
FRat(r) == FDiv(FInt(r[1]), FInt(r[2]))

(***************************************************************************)
(* Python values.                                                          *)
(***************************************************************************)
None == [t |-> "none", v |-> <<>>]
PyInt(n) == [t |-> "int", v |-> n]
PyFloat(r) == [t |-> "float", v |-> r]
PyBool(b) == [t |-> "bool", v |-> b]
PyStr(s) == [t |-> "str", v |-> s]
PyDict(d) == [t |-> "dict", v |-> d]
\* the {value, unit} object the extraction prompt asks the model for
ValueUnit(val, unit) == PyDict([value |-> val, unit |-> unit])

Ok(x) == [ok |-> TRUE, val |-> x]
Raise == [ok |-> FALSE, val |-> None]
\* an OverflowError, which no except clause of the services catches
Overflow == [ok |-> FALSE, val |-> PyStr("OverflowError")]

\* float("inf"), what json.loads makes of a number such as 1e999.  It is a
\* float whose only uses here are int(), float(), bool() and str().
Infinity == [t |-> "float", v |-> <<1, 0>>]
IsInfinity(x) == x.t = "float" /\ x.v[2] = 0
\* whether the result of a conversion is the OverflowError
Overflowed(r) == ~r.ok /\ r.val.t = "str"

IsNumber(x) == x.t \in {"int", "float", "bool"}
\* the numeric value of an int, float or bool
NumOf(x) ==
    CASE x.t = "int" -> RInt(x.v)
      [] x.t = "float" -> x.v
      [] x.t = "bool" -> IF x.v THEN RInt(1) ELSE RInt(0)

\* Python ==
PyEq(a, b) ==
    IF IsNumber(a) /\ IsNumber(b) THEN NumOf(a) = NumOf(b)
    ELSE a.t = b.t /\ a.v = b.v

\* dict.get(key): None when the key is absent
Get(d, k) == IF k \in DOMAIN d THEN d[k] ELSE None
\* d[key] = value
Put(d, k, x) == [j \in DOMAIN d \cup {k} |-> IF j = k THEN x ELSE d[j]]
\* del d[key]
Del(d, k) == [j \in DOMAIN d \ {k} |-> d[j]]
EmptyDict == [j \in {} |-> None]

(***************************************************************************)
(* Strings: characters, str.strip, int()/float() of a string and the two   *)
(* regular expressions \d+ and \d+\.?\d* used to pull a number out of text *)
(***************************************************************************)
Ch(s, i) == SubSeq(s, i, i)
Digits == {"0", "1", "2", "3", "4", "5", "6", "7", "8", "9"}
IsDigit(c) == c \in Digits
DigitVal(c) ==
    CASE c = "0" -> 0 [] c = "1" -> 1 [] c = "2" -> 2 [] c = "3" -> 3
      [] c = "4" -> 4 [] c = "5" -> 5 [] c = "6" -> 6 [] c = "7" -> 7
      [] c = "8" -> 8 [] c = "9" -> 9

RECURSIVE LStrip(_)
LStrip(s) == IF Len(s) > 0 /\ Ch(s, 1) = " " THEN LStrip(Tail(s)) ELSE s
RECURSIVE RStrip(_)
RStrip(s) ==
    IF Len(s) > 0 /\ Ch(s, Len(s)) = " " THEN RStrip(SubSeq(s, 1, Len(s) - 1))
    ELSE s
Strip(s) == RStrip(LStrip(s))

AllDigits(s) == \A i \in 1..Len(s) : IsDigit(Ch(s, i))

RECURSIVE NatOf(_)
NatOf(s) ==
    IF Len(s) = 0 THEN 0
    ELSE 10 * NatOf(SubSeq(s, 1, Len(s) - 1)) + DigitVal(Ch(s, Len(s)))

RECURSIVE Pow10(_)
Pow10(k) == IF k = 0 THEN 1 ELSE 10 * Pow10(k - 1)

\* length of the longest run of digits of s that starts at position i
RECURSIVE DigitRun(_, _)
DigitRun(s, i) ==
    IF i <= Len(s) /\ IsDigit(Ch(s, i)) THEN 1 + DigitRun(s, i + 1) ELSE 0

\* position of the first digit of s, 0 when there is none
FirstDigit(s) ==
    IF \E i \in 1..Len(s) : IsDigit(Ch(s, i))
    THEN CHOOSE i \in 1..Len(s) :
            IsDigit(Ch(s, i)) /\ \A j \in 1..(i - 1) : ~IsDigit(Ch(s, j))
    ELSE 0

\* re.search(r'(\d+)', s).group(1), "" when there is no match
SearchInt(s) ==
    LET i == FirstDigit(s)
    IN  IF i = 0 THEN "" ELSE SubSeq(s, i, i + DigitRun(s, i) - 1)

\* re.search(r'(\d+\.?\d*)', s).group(1), "" when there is no match
SearchDecimal(s) ==
    LET i == FirstDigit(s)
        n == DigitRun(s, i)
        dot == i + n
    IN  IF i = 0 THEN ""
        ELSE IF dot <= Len(s) /\ Ch(s, dot) = "."
             THEN SubSeq(s, i, dot + DigitRun(s, dot + 1))
             ELSE SubSeq(s, i, dot - 1)

\* the value of an unsigned decimal literal: digits, digits., digits.digits, .digits
IsDecimalLiteral(s) ==
    LET n == DigitRun(s, 1)
    IN  \/ n > 0 /\ n = Len(s)
        \/ /\ n < Len(s) /\ Ch(s, n + 1) = "."
           /\ n + 1 + DigitRun(s, n + 2) = Len(s)
           /\ Len(s) > 1
DecimalLiteral(s) ==
    LET n == DigitRun(s, 1)
        frac == SubSeq(s, n + 2, Len(s))
    IN  IF n = Len(s) THEN RInt(NatOf(s))
        ELSE RAdd(RInt(NatOf(SubSeq(s, 1, n))), Rat(NatOf(frac), Pow10(Len(frac))))

\* a leading sign of a numeric string
HasSign(s) == Len(s) > 0 /\ Ch(s, 1) \in {"+", "-"}
Unsigned(s) == IF HasSign(s) THEN Tail(s) ELSE s
SignOf(s) == IF Len(s) > 0 /\ Ch(s, 1) = "-" THEN -1 ELSE 1

\* float(s) for a str s: surrounding blanks stripped, optional sign, decimal
\* literal; anything else is a ValueError
SignedDecimal(sign, u) ==
    IF IsDecimalLiteral(u) THEN Ok(RMul(RInt(sign), DecimalLiteral(u))) ELSE Raise
StrippedFloat(s) == SignedDecimal(SignOf(s), Unsigned(s))
FloatOfStr(s) == StrippedFloat(Strip(s))

\* int(s) for a str s: surrounding blanks stripped, optional sign, digits
SignedDigits(sign, u) ==
    IF Len(u) > 0 /\ AllDigits(u) THEN Ok(sign * NatOf(u)) ELSE Raise
StrippedInt(s) == SignedDigits(SignOf(s), Unsigned(s))
IntOfStr(s) == StrippedInt(Strip(s))

\* float(x): the result is a rational; ValueError / TypeError is Raise
float(x) ==
    CASE IsNumber(x) -> Ok(NumOf(x))
      [] x.t = "str" -> FloatOfStr(x.v)
      [] OTHER -> Raise

\* int(x): truncation toward zero of a float
int(x) ==
    CASE x.t = "int" -> Ok(x.v)
      [] x.t = "bool" -> Ok(IF x.v THEN 1 ELSE 0)
      [] x.t = "float" -> IF IsInfinity(x) THEN Overflow ELSE Ok(RTrunc(x.v))
      [] x.t = "str" -> IntOfStr(x.v)
      [] OTHER -> Raise

(***************************************************************************)
(* models/schema.py: a FieldDefinition is [name, type, unit, label,        *)
(* compareDirection, required], a MetricDefinition [name, formula, label,  *)
(* compareDirection], a ProductSchema [fields, metrics] with both lists as *)
(* sequences.  An Optional[str] unit is a string, "" standing for None     *)
(* (the code only ever tests a unit for truthiness).                       *)
(***************************************************************************)
FieldTypes == {"text", "integer", "decimal", "boolean"}
NumericTypes == {"integer", "decimal"}
Directions == {"lower", "higher"}

FieldDefinition(name, type, unit, dir, required) ==
    [name |-> name, type |-> type, unit |-> unit, label |-> name,
     compareDirection |-> dir, required |-> required]

MetricDefinition(name, f, dir) ==
    [name |-> name, formula |-> f, label |-> name, compareDirection |-> dir]

ProductSchema(fields, metrics) == [fields |-> fields, metrics |-> metrics]

(***************************************************************************)
(* services/comparator.py                                                  *)
(***************************************************************************)
ComparisonEntry(u, c, diff, adv, alert) ==
    [user |-> u, competitor |-> c, difference |-> diff, advantage |-> adv,
     alert |-> alert]

\* the advantage / alert of a numeric field (lines 47-69)
FieldAdvantageYellowOnly(dir, user_num, competitor_num) ==
    IF RLt(user_num, competitor_num) THEN <<"competitor", PyStr("yellow")>>
    ELSE IF RLt(competitor_num, user_num) THEN <<"user", None>>
    ELSE <<"equal", None>>
FieldAdvantage(dir, user_num, competitor_num) ==
    IF dir = "lower"
    THEN IF RLt(competitor_num, user_num) THEN <<"competitor", PyStr("red")>>
         ELSE IF RLt(user_num, competitor_num) THEN <<"user", None>>
         ELSE <<"equal", None>>
    ELSE IF RLt(user_num, competitor_num) THEN <<"competitor", PyStr("yellow")>>
         ELSE IF RLt(competitor_num, user_num) THEN <<"user", None>>
         ELSE <<"equal", None>>

\* the entry of a numeric field given the two conversions (lines 42-86)
NumericEntry(dir, user_value, competitor_value, un, cn, a) ==
    IF un.ok /\ cn.ok
    THEN ComparisonEntry(user_value, competitor_value,
                         PyFloat(RSub(cn.val, un.val)), a[1], a[2])
    ELSE ComparisonEntry(user_value, competitor_value, None, "equal", None)

NumericField(dir, user_value, competitor_value, un, cn) ==
    NumericEntry(dir, user_value, competitor_value, un, cn,
                 IF un.ok /\ cn.ok THEN FieldAdvantage(dir, un.val, cn.val)
                 ELSE <<"equal", None>>)

\* the body of the loop over schema.fields for one field that is non-null on
\* both sides (lines 40-95)
CompareField(field, user_value, competitor_value) ==
    IF field.type \in {"integer", "decimal"}
    THEN NumericField(field.compareDirection, user_value, competitor_value,
                      float(user_value), float(competitor_value))
    ELSE ComparisonEntry(user_value, competitor_value, None,
                         IF PyEq(user_value, competitor_value)
                         THEN "equal" ELSE "different", None)

\* a field is skipped when it is missing or null on either side (lines 36-38)
SkippedUserOnly(user_value, competitor_value) == user_value = None
Skipped(user_value, competitor_value) ==
    user_value = None \/ competitor_value = None

RECURSIVE CompareFields(_, _, _, _, _)
\* one turn of the loop for the field with the two values
FieldStep(fields, i, user, competitor, acc, user_value, competitor_value) ==
    IF Skipped(user_value, competitor_value)
    THEN CompareFields(fields, i + 1, user, competitor, acc)
    ELSE CompareFields(fields, i + 1, user, competitor,
            Put(acc, fields[i].name,
                CompareField(fields[i], user_value, competitor_value)))

\* the loop over schema.fields (lines 30-95), from field i on
CompareFields(fields, i, user, competitor, acc) ==
    IF i > Len(fields) THEN acc
    ELSE FieldStep(fields, i, user, competitor, acc,
                   Get(user, fields[i].name), Get(competitor, fields[i].name))

(***************************************************************************)
(* More of Python's str: str(x), str.replace, and the expression           *)
(* evaluator eval() on a string of the characters 0-9 + - * / . ( ) and    *)
(* blank.  The power operator ** is not modelled: no formula of the model  *)
(* holds two adjacent asterisks.                                           *)
(***************************************************************************)
LowerLetters == {"a", "b", "c", "d", "e", "f", "g", "h", "i", "j", "k", "l", "m",
                 "n", "o", "p", "q", "r", "s", "t", "u", "v", "w", "x", "y", "z"}
UpperLetters == {"A", "B", "C", "D", "E", "F", "G", "H", "I", "J", "K", "L", "M",
                 "N", "O", "P", "Q", "R", "S", "T", "U", "V", "W", "X", "Y", "Z"}
IsLetter(c) == c \in LowerLetters \cup UpperLetters
\* \w of the regular expressions
IsWordChar(c) == IsLetter(c) \/ IsDigit(c) \/ c = "_"

DigitChar(d) ==
    CASE d = 0 -> "0" [] d = 1 -> "1" [] d = 2 -> "2" [] d = 3 -> "3"
      [] d = 4 -> "4" [] d = 5 -> "5" [] d = 6 -> "6" [] d = 7 -> "7"
      [] d = 8 -> "8" [] d = 9 -> "9"

RECURSIVE StrNat(_)
StrNat(n) == IF n < 10 THEN DigitChar(n) ELSE StrNat(n \div 10) \o DigitChar(n % 10)

\* str(n) of an int
StrInt(n) == IF n < 0 THEN "-" \o StrNat(-n) ELSE StrNat(n)

\* n as exactly k decimal digits
RECURSIVE PadNat(_, _)
PadNat(n, k) == IF k = 0 THEN "" ELSE PadNat(n \div 10, k - 1) \o DigitChar(n % 10)

\* number of decimals of a rational with a terminating expansion
RECURSIVE Decimals(_, _)
Decimals(d, k) == IF Pow10(k) % d = 0 THEN k ELSE Decimals(d, k + 1)

\* str(x) / repr(x) of a float with a terminating decimal expansion
StrFloat(r) ==
    LET n == Abs(r[1])
        k == Decimals(r[2], 0)
        sign == IF r[1] < 0 THEN "-" ELSE ""
    IN  IF k = 0 THEN sign \o StrNat(n) \o ".0"
        ELSE sign \o StrNat(n \div r[2]) \o "."
                  \o PadNat(((n % r[2]) * Pow10(k)) \div r[2], k)

\* str(x)
str(x) ==
    CASE x.t = "str" -> x.v
      [] x.t = "int" -> StrInt(x.v)
      [] x.t = "float" -> IF IsInfinity(x) THEN "inf" ELSE StrFloat(x.v)
      [] x.t = "bool" -> IF x.v THEN "True" ELSE "False"
      [] x.t = "none" -> "None"
      [] OTHER -> "{...}"

StartsWith(s, i, old) ==
    i + Len(old) - 1 <= Len(s) /\ SubSeq(s, i, i + Len(old) - 1) = old

\* s.replace(old, new) for a non-empty old, scanning from position i
RECURSIVE ReplaceFrom(_, _, _, _)
ReplaceFrom(s, i, old, new) ==
    IF i > Len(s) THEN ""
    ELSE IF StartsWith(s, i, old)
         THEN new \o ReplaceFrom(s, i + Len(old), old, new)
         ELSE Ch(s, i) \o ReplaceFrom(s, i + 1, old, new)

Replace(s, old, new) == ReplaceFrom(s, 1, old, new)

RECURSIVE SkipSp(_, _)
SkipSp(s, i) == IF i <= Len(s) /\ Ch(s, i) = " " THEN SkipSp(s, i + 1) ELSE i

At(s, i) == IF i <= Len(s) THEN Ch(s, i) ELSE ""

Parsed(v, p) == [ok |-> TRUE, val |-> v, pos |-> p]
NoParse == [ok |-> FALSE, val |-> RInt(0), pos |-> 0]

RECURSIVE ParseExpr(_, _), ExprRest(_, _), ParseTerm(_, _), TermRest(_, _),
          ParseFactor(_, _), ParseAtom(_, _)

\* NUMBER with n digits before and m digits after the point at j + n
FloatLiteral(s, j, n, m) ==
    IF n + m = 0 THEN NoParse
    ELSE Parsed(DecimalLiteral(SubSeq(s, j, j + n + m)), j + n + m + 1)

\* NUMBER of n digits: an integer literal has no leading zero unless it is
\* all zeros
IntLiteral(s, j, n) ==
    IF n = 0 THEN NoParse
    ELSE IF n > 1 /\ Ch(s, j) = "0" /\ NatOf(SubSeq(s, j, j + n - 1)) # 0
    THEN NoParse
    ELSE Parsed(RInt(NatOf(SubSeq(s, j, j + n - 1))), j + n)

\* NUMBER: 12, 12., 12.5, .5
NumberAt(s, j, n) ==
    IF At(s, j + n) = "." THEN FloatLiteral(s, j, n, DigitRun(s, j + n + 1))
    ELSE IntLiteral(s, j, n)

ParseNumber(s, j) == NumberAt(s, j, DigitRun(s, j))

\* the closing parenthesis after the expression e
CloseParen(s, e, k) ==
    IF e.ok /\ At(s, k) = ")" THEN Parsed(e.val, k + 1) ELSE NoParse

Closed(s, e) == IF e.ok THEN CloseParen(s, e, SkipSp(s, e.pos)) ELSE NoParse

\* atom: NUMBER | ( expr ); the empty tuple () is never a number
AtomAt(s, j) ==
    IF At(s, j) = "(" THEN Closed(s, ParseExpr(s, j + 1)) ELSE ParseNumber(s, j)

ParseAtom(s, i) == AtomAt(s, SkipSp(s, i))

\* a sign applied to the factor f
Signed(sign, f) ==
    IF ~f.ok THEN NoParse
    ELSE IF sign = "-" THEN Parsed(RSub(RInt(0), f.val), f.pos)
    ELSE f

\* factor: (+|-) factor | atom
FactorAt(s, j) ==
    IF At(s, j) \in {"+", "-"} THEN Signed(At(s, j), ParseFactor(s, j + 1))
    ELSE AtomAt(s, j)

ParseFactor(s, i) == FactorAt(s, SkipSp(s, i))

\* acc op r for op among * / //; a zero divisor is a ZeroDivisionError
ApplyTerm(acc, op, r) ==
    IF ~r.ok THEN NoParse
    ELSE IF op = "*" THEN Parsed(RMul(acc.val, r.val), r.pos)
    ELSE IF r.val[1] = 0 THEN NoParse
    ELSE IF op = "//" THEN Parsed(RInt(RFloor(RDiv(acc.val, r.val))), r.pos)
    ELSE Parsed(RDiv(acc.val, r.val), r.pos)

\* acc op r for op among + -
ApplyExpr(acc, op, r) ==
    IF ~r.ok THEN NoParse
    ELSE IF op = "+" THEN Parsed(RAdd(acc.val, r.val), r.pos)
    ELSE Parsed(RSub(acc.val, r.val), r.pos)

TermOp(s, j) ==
    IF At(s, j) = "/" /\ At(s, j + 1) = "/" THEN "//" ELSE At(s, j)

TermNext(s, acc) == IF acc.ok THEN TermRest(s, acc) ELSE NoParse

\* term: factor ((* | / | //) factor)*
TermRestAt(s, acc, j) ==
    IF At(s, j) \notin {"*", "/"} THEN Parsed(acc.val, j)
    ELSE TermNext(s, ApplyTerm(acc, TermOp(s, j),
                               ParseFactor(s, j + Len(TermOp(s, j)))))

TermRest(s, acc) == TermRestAt(s, acc, SkipSp(s, acc.pos))

ParseTerm(s, i) == TermNext(s, ParseFactor(s, i))

ExprNext(s, acc) == IF acc.ok THEN ExprRest(s, acc) ELSE NoParse

\* expr: term ((+ | -) term)*
ExprRestAt(s, acc, j) ==
    IF At(s, j) \notin {"+", "-"} THEN Parsed(acc.val, j)
    ELSE ExprNext(s, ApplyExpr(acc, At(s, j), ParseTerm(s, j + 1)))

ExprRest(s, acc) == ExprRestAt(s, acc, SkipSp(s, acc.pos))

ParseExpr(s, i) == ExprNext(s, ParseTerm(s, i))

\* the whole string must have been read
Complete(s, e) == IF e.ok /\ e.pos > Len(s) THEN Ok(e.val) ELSE Raise

\* float(eval(s)): the value, or Raise for a SyntaxError, a ZeroDivisionError
\* or a TypeError
eval(s) == Complete(s, ParseExpr(s, 1))

(***************************************************************************)
(* services/metric_calculator.py                                           *)
(***************************************************************************)
\* length of the run of word characters of s that starts at position i
RECURSIVE WordRun(_, _)
WordRun(s, i) ==
    IF i <= Len(s) /\ IsWordChar(Ch(s, i)) THEN 1 + WordRun(s, i + 1) ELSE 0

\* re.findall(r'\b([a-zA-Z_][a-zA-Z0-9_]*)\b', s) from position i: the maximal
\* runs of word characters that do not start with a digit, in order
RECURSIVE FindIdentifiers(_, _)
FindIdentifiers(s, i) ==
    IF i > Len(s) THEN <<>>
    ELSE LET n == WordRun(s, i)
         IN  IF n = 0 THEN FindIdentifiers(s, i + 1)
             ELSE IF IsDigit(Ch(s, i)) THEN FindIdentifiers(s, i + n)
             ELSE <<SubSeq(s, i, i + n - 1)>> \o FindIdentifiers(s, i + n)

AllowedChars == Digits \cup {"+", "-", "*", "/", ".", "(", ")", " "}

\* the text that replaces a field name (lines 36-43): str(value) for an int
\* or float, str(float(value)) for a value float() accepts, else the
\* ValueError
Replacement(value) ==
    IF value.t \in {"int", "float", "bool"} THEN Ok(str(value))
    ELSE IF float(value).ok THEN Ok(StrFloat(float(value).val))
    ELSE Raise

RECURSIVE Substitute(_, _, _, _)
\* one step of the loop with the replacement text rep
SubstituteStep(names, i, safe_formula, data, rep) ==
    IF rep.ok
    THEN Substitute(names, i + 1, Replace(safe_formula, names[i], rep.val), data)
    ELSE Raise

\* the substitution loop (lines 31-43): Raise when a referenced field is not
\* numeric, otherwise the formula after the replacements
Substitute(names, i, safe_formula, data) ==
    IF i > Len(names) THEN Ok(safe_formula)
    ELSE IF names[i] \notin DOMAIN data
    THEN Substitute(names, i + 1, safe_formula, data)
    ELSE SubstituteStep(names, i, safe_formula, data, Replacement(data[names[i]]))

\* the character filter that guards eval (lines 48-49)
OnlyAllowedChars(s) == \A i \in 1..Len(s) : Ch(s, i) \in AllowedChars

\* the outcome of evaluate_formula once eval has run (lines 52-55)
Evaluated(r) ==
    IF r.ok THEN [ok |-> TRUE, val |-> PyFloat(r.val), evaluated |-> TRUE]
    ELSE [ok |-> FALSE, val |-> None, evaluated |-> TRUE]

\* the guarded evaluation of the substituted formula (lines 46-55)
EvaluateSafe(sub) ==
    IF ~sub.ok THEN [ok |-> FALSE, val |-> None, evaluated |-> FALSE]
    ELSE IF ~OnlyAllowedChars(sub.val)
    THEN [ok |-> FALSE, val |-> None, evaluated |-> FALSE]
    ELSE Evaluated(eval(sub.val))

\* evaluate_formula: the number returned, or ok = FALSE for the ValueError;
\* evaluated tells whether the call of eval (line 52) was reached
evaluate_formula(f, data) ==
    EvaluateSafe(Substitute(FindIdentifiers(f, 1), 1, f, data))

calculate_metric(metric, data) == evaluate_formula(metric.formula, data)


(***************************************************************************)
(* services/comparator.py, the metrics loop and compare itself             *)
(***************************************************************************)
\* the advantage / alert of a metric (lines 106-126)
MetricAdvantageAsField(dir, user_metric_value, competitor_metric_value) ==
    FieldAdvantage(dir, user_metric_value, competitor_metric_value)
MetricAdvantage(dir, user_metric_value, competitor_metric_value) ==
    IF dir = "lower"
    THEN IF RLt(competitor_metric_value, user_metric_value)
         THEN <<"competitor", PyStr("yellow")>>
         ELSE IF RLt(user_metric_value, competitor_metric_value)
         THEN <<"user", None>>
         ELSE <<"equal", None>>
    ELSE IF RLt(user_metric_value, competitor_metric_value)
         THEN <<"competitor", PyStr("yellow")>>
         ELSE IF RLt(competitor_metric_value, user_metric_value)
         THEN <<"user", None>>
         ELSE <<"equal", None>>

\* the entry of a metric with values u and c (lines 104-134)
MetricEntry(dir, u, c, a) ==
    ComparisonEntry(PyFloat(u), PyFloat(c), PyFloat(RSub(c, u)), a[1], a[2])

\* the try block of the metrics loop for one metric (lines 100-134) given the
\* two evaluations: the entry, or Raise when either evaluation raised
TryMetric(dir, u, c) ==
    IF ~u.ok \/ ~c.ok THEN Raise
    ELSE Ok(MetricEntry(dir, u.val.v, c.val.v,
                        MetricAdvantage(dir, u.val.v, c.val.v)))

CompareMetric(metric, user, competitor) ==
    TryMetric(metric.compareDirection, calculate_metric(metric, user),
              calculate_metric(metric, competitor))

\* the handler of the metrics loop (lines 135-137): what becomes of the
\* comparison when the try block of a metric raises
MetricFailedRaises(acc) == [acc EXCEPT !.raised = TRUE]
MetricFailed(acc) == acc

RECURSIVE CompareMetrics(_, _, _, _, _)
\* one turn of the loop with the outcome e of the try block
MetricStep(metrics, i, user, competitor, acc, e) ==
    CompareMetrics(metrics, i + 1, user, competitor,
        IF e.ok THEN [acc EXCEPT !.metrics = Put(acc.metrics, metrics[i].name, e.val)]
        ELSE MetricFailed(acc))

\* the loop over schema.metrics (lines 98-137), from metric i on; acc is
\* [raised, metrics]
CompareMetrics(metrics, i, user, competitor, acc) ==
    IF i > Len(metrics) \/ acc.raised THEN acc
    ELSE MetricStep(metrics, i, user, competitor, acc,
                    CompareMetric(metrics[i], user, competitor))

\* the returned comparison (line 139) or the exception that left the call
Comparison(fields, m) ==
    [raised |-> m.raised, fields |-> fields, metrics |-> m.metrics]

\* compare: [raised, fields, metrics]; raised tells that an exception left
\* the call
compare(user, competitor, sch) ==
    Comparison(CompareFields(sch.fields, 1, user, competitor, EmptyDict),
               CompareMetrics(sch.metrics, 1, user, competitor,
                              [raised |-> FALSE, metrics |-> EmptyDict]))

(***************************************************************************)
(* services/schema_validator.py                                            *)
(***************************************************************************)
\* repr(x) of a value inside a dict: a str is quoted
Repr(x) == IF x.t = "str" THEN "'" \o x.v \o "'" ELSE str(x)

\* str(d) of a dict with the keys value and unit, in this order, or with the
\* key unit alone
StrDict(d) ==
    IF "value" \in DOMAIN d
    THEN "{'value': " \o Repr(d.value) \o ", 'unit': " \o Repr(d.unit) \o "}"
    ELSE "{'unit': " \o Repr(d.unit) \o "}"

\* str(x) for any value of a record
StrValue(x) == IF x.t = "dict" THEN StrDict(x.v) ELSE str(x)

\* bool(x)
Truthy(x) ==
    CASE x.t = "none" -> FALSE
      [] x.t = "bool" -> x.v
      [] x.t = "int" -> x.v # 0
      [] x.t = "float" -> x.v[1] # 0
      [] x.t = "str" -> x.v # ""
      [] x.t = "dict" -> DOMAIN x.v # {}

\* the names of a list of field or metric definitions
Names(defs) == {defs[i].name : i \in 1..Len(defs)}

\* len(names) != len(set(names)) (lines 28, 34)
HasDuplicatesNever(defs) == FALSE
HasDuplicates(defs) == Len(defs) # Cardinality(Names(defs))

\* the loop over the fields (lines 38-42)
RECURSIVE FieldErrors(_, _)
FieldErrors(fields, i) ==
    IF i > Len(fields) THEN <<>>
    ELSE (IF fields[i].name = "" THEN <<"Field name cannot be empty">> ELSE <<>>)
         \o (IF fields[i].label = ""
             THEN <<"Field '" \o fields[i].name \o "' must have a label">> ELSE <<>>)
         \o FieldErrors(fields, i + 1)

\* validate_schema: the list of errors; the returned flag is len(errors) == 0.
\* The loop over the metrics (lines 45-49) does nothing.
validate_schema(sch) ==
    (IF HasDuplicates(sch.fields) THEN <<"Duplicate field names found">> ELSE <<>>)
    \o (IF sch.metrics # <<>> /\ HasDuplicates(sch.metrics)
        THEN <<"Duplicate metric names found">> ELSE <<>>)
    \o FieldErrors(sch.fields, 1)

ValidationError(field, kind) == [field |-> field.name, kind |-> kind]

\* the first loop of validate_data_against_schema (lines 63-66)
RECURSIVE MissingRequired(_, _, _)
MissingRequired(fields, i, data) ==
    IF i > Len(fields) THEN <<>>
    ELSE (IF fields[i].required /\ fields[i].name \notin DOMAIN data
          THEN <<ValidationError(fields[i], "missing")>> ELSE <<>>)
         \o MissingRequired(fields, i + 1, data)

\* the decimal branch for a str (lines 83-95): a string that holds a digit is
\* accepted, any other one goes through float()
DecimalStringOk(v) == SearchDecimal(Strip(v)) # "" \/ FloatOfStr(v).ok

\* whether the value passes the type test of its field (lines 73-107)
TypeOk(type, value) ==
    CASE type = "integer" -> value.t \in {"int", "bool"} \/ int(value).ok
      [] type = "decimal" ->
            \/ value.t \in {"int", "float", "bool"}
            \/ value.t = "str" /\ DecimalStringOk(value.v)
      [] type = "boolean" -> value.t = "bool"
      [] type = "text" -> value.t = "str"

\* the second loop of validate_data_against_schema (lines 69-107)
RECURSIVE TypeErrors(_, _, _)
TypeErrors(fields, i, data) ==
    IF i > Len(fields) THEN <<>>
    ELSE (IF fields[i].name \in DOMAIN data
             /\ ~TypeOk(fields[i].type, data[fields[i].name])
          THEN <<ValidationError(fields[i], "type")>> ELSE <<>>)
         \o TypeErrors(fields, i + 1, data)

\* whether int(value) of line 76 raises an OverflowError, which the except
\* clause of line 77 lets through
ValidateOverflows(fields, data) ==
    \E i \in 1..Len(fields) :
        /\ fields[i].name \in DOMAIN data
        /\ fields[i].type = "integer"
        /\ data[fields[i].name].t \notin {"int", "bool"}
        /\ Overflowed(int(data[fields[i].name]))

\* validate_data_against_schema when it does not raise: the list of errors;
\* the returned flag is len(errors) == 0
validate_data_against_schema(data, sch) ==
    MissingRequired(sch.fields, 1, data) \o TypeErrors(sch.fields, 1, data)

\* the unwrapping of a {value, ...} object (lines 122-124)
Unwrap(value) ==
    IF value.t = "dict" /\ "value" \in DOMAIN value.v THEN value.v.value ELSE value

IntResult(r) == IF r.ok THEN Ok(PyInt(r.val)) ELSE Raise
FloatResult(r) == IF r.ok THEN Ok(PyFloat(r.val)) ELSE Raise

\* the integer conversion (lines 134-144)
ToIntegerAsText(value) == Ok(PyStr(StrValue(value)))
ToInteger(value) ==
    IF value.t = "str" /\ SearchInt(Strip(value.v)) # ""
    THEN Ok(PyInt(NatOf(SearchInt(Strip(value.v)))))
    ELSE IntResult(int(value))

\* the decimal conversion (lines 145-156)
ToDecimalStrict(value) == FloatResult(float(value))
ToDecimal(value) ==
    IF value.t = "str" /\ SearchDecimal(Strip(value.v)) # ""
    THEN Ok(PyFloat(DecimalLiteral(SearchDecimal(Strip(value.v)))))
    ELSE FloatResult(float(value))

\* the text conversion (lines 159-160)
ToTextRepr(value) == Ok(PyStr(Repr(value)))
ToText(value) == Ok(PyStr(StrValue(value)))

\* the boolean conversion (lines 157-158)
ToBoolean(value) == Ok(PyBool(Truthy(value)))

\* the conversion of a non-null value to the type of its field (lines
\* 133-160), Raise for the ValueError / TypeError
Convert(type, value) ==
    CASE type = "integer" -> ToInteger(value)
      [] type = "decimal" -> ToDecimal(value)
      [] type = "boolean" -> ToBoolean(value)
      [] type = "text" -> ToText(value)

\* what is stored for a field whose conversion gave c (lines 133-168)
Stored(field, normalized, c) ==
    IF c.ok THEN Put(normalized, field.name, c.val)
    ELSE IF field.required THEN Put(normalized, field.name, None)
    ELSE normalized

\* one turn of the loop of normalize_data for a field of the record, with
\* the unwrapped value (lines 126-168)
NormalizeField(field, normalized, value) ==
    IF value = None
    THEN IF field.required THEN Put(normalized, field.name, None) ELSE normalized
    ELSE Stored(field, normalized, Convert(field.type, value))

\* normalize_data (lines 112-173), from field i on
RECURSIVE NormalizeFrom(_, _, _, _)
NormalizeFrom(fields, i, data, normalized) ==
    IF i > Len(fields) THEN normalized
    ELSE IF fields[i].name \notin DOMAIN data
    THEN NormalizeFrom(fields, i + 1, data, normalized)
    ELSE NormalizeFrom(fields, i + 1, data,
            NormalizeField(fields[i], normalized, Unwrap(data[fields[i].name])))

\* whether int(value) of line 144 raises an OverflowError, which the except
\* clause of line 161 lets through
NormalizeOverflows(fields, data) ==
    \E i \in 1..Len(fields) :
        /\ fields[i].name \in DOMAIN data
        /\ fields[i].type = "integer"
        /\ Unwrap(data[fields[i].name]).t # "str"
        /\ Overflowed(int(Unwrap(data[fields[i].name])))

\* normalize_data when it does not raise
normalize_data(data, sch) == NormalizeFrom(sch.fields, 1, data, EmptyDict)

(***************************************************************************)
(* services/matcher.py.  The scores are Python floats, and whether they    *)
(* stay within [0, 1] depends on the rounding of every operation, so this  *)
(* service is computed in binary64.                                        *)
(***************************************************************************)
FOne == FInt(1)
FHalf == FRat(<<1, 2>>)
\* the literals 0.6 and 0.4 of calculate_confidence_score
SpecWeight == FRat(<<6, 10>>)
SemanticWeight == FRat(<<4, 10>>)

\* weight = 2.0 if field.required else 1.0
FieldWeightFlat(field) == FInt(1)
FieldWeight(field) == IF field.required THEN FInt(2) ELSE FInt(1)

\* the similarity of two numbers (lines 57-61)
NumericSimilarityNonZero(user_num, candidate_num) ==
    IF user_num.s = 0 THEN FZero
    ELSE FMax(FZero, FSub(FOne, FDiv(FAbs(FSub(candidate_num, user_num)),
                                     FAbs(user_num))))
NumericSimilarity(user_num, candidate_num) ==
    IF user_num.s = 0 THEN (IF candidate_num.s = 0 THEN FOne ELSE FZero)
    ELSE FMax(FZero, FSub(FOne, FDiv(FAbs(FSub(candidate_num, user_num)),
                                     FAbs(user_num))))

\* the similarity of a text or boolean field (line 72)
ExactSimilarity(user_value, candidate_value) ==
    IF PyEq(user_value, candidate_value) THEN FOne ELSE FZero

\* similarities.append(similarity); weights.append(weight)
Scored(field, similarity) ==
    <<[similarity |-> similarity, weight |-> FieldWeight(field)]>>

\* the numeric branch (lines 50-69): u and c are the outcomes of the two
\* float() calls, a ValueError / TypeError leaves the field out
NumericScore(field, u, c) ==
    IF u.ok /\ c.ok
    THEN Scored(field, NumericSimilarity(FRat(u.val), FRat(c.val)))
    ELSE <<>>

\* one turn of the loop over schema.fields (lines 40-75)
FieldScore(field, user_value, candidate_value) ==
    IF user_value = None \/ candidate_value = None THEN <<>>
    ELSE IF field.type \in NumericTypes
    THEN NumericScore(field, float(user_value), float(candidate_value))
    ELSE Scored(field, ExactSimilarity(user_value, candidate_value))

RECURSIVE FieldScores(_, _, _, _)
FieldScores(fields, i, user, candidate) ==
    IF i > Len(fields) THEN <<>>
    ELSE FieldScore(fields[i], Get(user, fields[i].name),
                    Get(candidate, fields[i].name))
         \o FieldScores(fields, i + 1, user, candidate)

\* sum(s * w for s, w in zip(similarities, weights)), added left to right
RECURSIVE WeightedSum(_, _)
WeightedSum(scores, n) ==
    IF n = 0 THEN FZero
    ELSE FAdd(WeightedSum(scores, n - 1),
              FMul(scores[n].similarity, scores[n].weight))

\* sum(weights)
RECURSIVE TotalWeight(_, _)
TotalWeight(scores, n) ==
    IF n = 0 THEN FZero ELSE FAdd(TotalWeight(scores, n - 1), scores[n].weight)

\* lines 77-84
WeightedAverage(scores) ==
    IF scores = <<>> THEN FZero
    ELSE FDiv(WeightedSum(scores, Len(scores)), TotalWeight(scores, Len(scores)))

\* MatcherService._calculate_spec_similarity
calculate_spec_similarity(user, candidate, sch) ==
    IF sch.fields = <<>> THEN FZero
    ELSE WeightedAverage(FieldScores(sch.fields, 1, user, candidate))

\* sum(a * b for a, b in zip(u, v)) over the first n pairs
RECURSIVE Dot(_, _, _)
Dot(u, v, n) ==
    IF n = 0 THEN FZero
    ELSE FAdd(Dot(u, v, n - 1), FMul(FInt(u[n]), FInt(v[n])))

\* sum(a * a for a in u) ** 0.5
Norm(u) == FSqrt(Dot(u, u, Len(u)))

\* dot_product / (norm_user * norm_candidate) if the product is > 0 else 0
Cosine(dot_product, norms) ==
    IF norms.s > 0 THEN FDiv(dot_product, norms) ELSE FZero

\* the embedding branch (lines 116-129): (similarity + 1) / 2, returned as is
Normalized(similarity) == FDiv(FAdd(similarity, FOne), FInt(2))

EmbeddingSimilarity(u, v) ==
    Normalized(Cosine(Dot(u, v, IF Len(u) < Len(v) THEN Len(u) ELSE Len(v)),
                      FMul(Norm(u), Norm(v))))

\* the length of the match of 0?\.\d+|1\.0|0 at position i of s, 0 for none
SimilarityMatchAt(s, i) ==
    IF At(s, i) = "0" /\ At(s, i + 1) = "." /\ DigitRun(s, i + 2) > 0
    THEN 2 + DigitRun(s, i + 2)
    ELSE IF At(s, i) = "." /\ DigitRun(s, i + 1) > 0 THEN 1 + DigitRun(s, i + 1)
    ELSE IF StartsWith(s, i, "1.0") THEN 3
    ELSE IF At(s, i) = "0" THEN 1
    ELSE 0

\* re.search(r'0?\.\d+|1\.0|0', s).group(), "" when there is no match
RECURSIVE SearchSimilarity(_, _)
SearchSimilarity(s, i) ==
    IF i > Len(s) THEN ""
    ELSE IF SimilarityMatchAt(s, i) > 0
    THEN SubSeq(s, i, i + SimilarityMatchAt(s, i) - 1)
    ELSE SearchSimilarity(s, i + 1)

\* max(0.0, min(1.0, similarity))
Clamp(similarity) == FMax(FZero, FMin(FOne, similarity))

\* lines 155-161 and the final fallback: the number found in the reply,
\* clamped, or 0.5 when the reply holds none
MatchedSimilarity(match) ==
    IF match = "" THEN FHalf ELSE Clamp(FRat(DecimalLiteral(match)))
LLMSimilarity(reply) == MatchedSimilarity(SearchSimilarity(Strip(reply), 1))

\* MatcherService._calculate_semantic_similarity: outcome tells what the two
\* remote calls did, an exception (embedding = "fail", llm = "fail") or an
\* answer (the two vectors, the text of the reply)
calculate_semantic_similarity(outcome) ==
    IF outcome.embedding = "ok"
    THEN EmbeddingSimilarity(outcome.user_embedding, outcome.candidate_embedding)
    ELSE IF outcome.llm = "ok" THEN LLMSimilarity(outcome.reply)
    ELSE FHalf

\* the remote steps _calculate_semantic_similarity takes, in order: the
\* embedding step of the try block (lines 97-129), and the LLM judge of the
\* handler (lines 130-161) once the try block has raised
SemanticCalls(outcome) ==
    IF outcome.embedding = "ok" THEN <<"embedding">> ELSE <<"embedding", "llm">>

\* lines 189-202
Confidence(spec_similarity, semantic_similarity) ==
    [confidence_score |-> FAdd(FMul(SpecWeight, spec_similarity),
                               FMul(SemanticWeight, semantic_similarity)),
     spec_similarity |-> spec_similarity,
     semantic_similarity |-> semantic_similarity]

\* MatcherService.calculate_confidence_score
calculate_confidence_score(user, candidate, sch, outcome) ==
    Confidence(calculate_spec_similarity(user, candidate, sch),
               calculate_semantic_similarity(outcome))

(***************************************************************************)
(* services/unit_converter.py.  A unit is a string, "" standing for None   *)
(* (the callers only test a unit for truthiness).  The factors are the     *)
(* decimal literals of the table, and a conversion multiplies exactly.     *)
(***************************************************************************)
UpperAlphabet == "ABCDEFGHIJKLMNOPQRSTUVWXYZ"
LowerAlphabet == "abcdefghijklmnopqrstuvwxyz"
IndexIn(c, alphabet) == CHOOSE i \in 1..Len(alphabet) : Ch(alphabet, i) = c
LowerChar(c) ==
    IF c \in UpperLetters THEN Ch(LowerAlphabet, IndexIn(c, UpperAlphabet)) ELSE c
UpperChar(c) ==
    IF c \in LowerLetters THEN Ch(UpperAlphabet, IndexIn(c, LowerAlphabet)) ELSE c
\* str.lower and str.upper
RECURSIVE lower(_)
lower(s) == IF s = "" THEN "" ELSE LowerChar(Ch(s, 1)) \o lower(Tail(s))
RECURSIVE upper(_)
upper(s) == IF s = "" THEN "" ELSE UpperChar(Ch(s, 1)) \o upper(Tail(s))

Gallon == Rat(378541, 100000)
Pound == Rat(453592, 1000000)
Inch == Rat(254, 100)
Foot == Rat(3048, 10000)
InverseSame(r) == r
Inverse(r) == RDiv(RInt(1), r)

UNIT_CONVERSIONS ==
    (<<"gallons", "liters">> :> Gallon) @@ (<<"gal", "liters">> :> Gallon)
    @@ (<<"liters", "gallons">> :> Inverse(Gallon)) @@ (<<"L", "gallons">> :> Inverse(Gallon))
    @@ (<<"liters", "gal">> :> Inverse(Gallon)) @@ (<<"L", "gal">> :> Inverse(Gallon))
    @@ (<<"lbs", "kg">> :> Pound) @@ (<<"pounds", "kg">> :> Pound) @@ (<<"lb", "kg">> :> Pound)
    @@ (<<"kg", "lbs">> :> Inverse(Pound)) @@ (<<"kg", "pounds">> :> Inverse(Pound))
    @@ (<<"kg", "lb">> :> Inverse(Pound)) @@ (<<"kilograms", "lbs">> :> Inverse(Pound))
    @@ (<<"kilograms", "pounds">> :> Inverse(Pound))
    @@ (<<"oz", "lbs">> :> Rat(1, 16)) @@ (<<"ounces", "lbs">> :> Rat(1, 16))
    @@ (<<"lbs", "oz">> :> RInt(16)) @@ (<<"pounds", "oz">> :> RInt(16))
    @@ (<<"inches", "cm">> :> Inch) @@ (<<"in", "cm">> :> Inch)
    @@ (<<"cm", "inches">> :> Inverse(Inch)) @@ (<<"cm", "in">> :> Inverse(Inch))
    @@ (<<"centimeters", "inches">> :> Inverse(Inch))
    @@ (<<"feet", "meters">> :> Foot) @@ (<<"ft", "meters">> :> Foot)
    @@ (<<"meters", "feet">> :> Inverse(Foot)) @@ (<<"m", "feet">> :> Inverse(Foot))
    @@ (<<"meters", "ft">> :> Inverse(Foot))
    @@ (<<"kW", "W">> :> RInt(1000)) @@ (<<"kilowatts", "W">> :> RInt(1000))
    @@ (<<"W", "kW">> :> Rat(1, 1000)) @@ (<<"watts", "kW">> :> Rat(1, 1000))
    @@ (<<"USD", "USD">> :> RInt(1)) @@ (<<"$", "USD">> :> RInt(1))
    @@ (<<"cents", "USD">> :> Rat(1, 100)) @@ (<<"USD", "cents">> :> RInt(100))

UNIT_ALIASES ==
    [gal |-> "gallons", gallon |-> "gallons", L |-> "liters", liter |-> "liters",
     litre |-> "liters", lb |-> "lbs", pound |-> "lbs", pounds |-> "lbs",
     kg |-> "kg", kilogram |-> "kg", kilograms |-> "kg", oz |-> "oz",
     ounce |-> "oz", ounces |-> "oz", in |-> "inches", inch |-> "inches",
     cm |-> "cm", centimeter |-> "cm", centimeters |-> "cm", ft |-> "feet",
     foot |-> "feet", m |-> "meters", meter |-> "meters", metre |-> "meters",
     W |-> "W", watt |-> "W", watts |-> "W", kW |-> "kW", kilowatt |-> "kW",
     kilowatts |-> "kW", usd |-> "USD", dollars |-> "USD", dollar |-> "USD"]
        @@ ("$" :> "USD")

\* the two look-ups of normalize_unit (lines 127-133) on the lower-cased unit
AliasOfLower(unit_lower) ==
    IF \E alias \in DOMAIN UNIT_ALIASES : lower(alias) = unit_lower
    THEN UNIT_ALIASES[CHOOSE alias \in DOMAIN UNIT_ALIASES : lower(alias) = unit_lower]
    ELSE unit_lower
NormalizeLower(unit_lower) ==
    IF unit_lower \in DOMAIN UNIT_ALIASES THEN UNIT_ALIASES[unit_lower]
    ELSE AliasOfLower(unit_lower)

\* UnitConverter.normalize_unit
normalize_unit_cased(unit) == IF unit = "" THEN "" ELSE NormalizeLower(Strip(unit))
normalize_unit(unit) == IF unit = "" THEN "" ELSE NormalizeLower(Strip(lower(unit)))

Convertible(norm1, norm2) ==
    <<norm1, norm2>> \in DOMAIN UNIT_CONVERSIONS
        \/ <<norm2, norm1>> \in DOMAIN UNIT_CONVERSIONS

\* UnitConverter.are_units_compatible
are_units_compatible_same(unit1, unit2) == normalize_unit(unit1) = normalize_unit(unit2)
are_units_compatible(unit1, unit2) ==
    normalize_unit(unit1) = normalize_unit(unit2)
        \/ Convertible(normalize_unit(unit1), normalize_unit(unit2))

\* lines 175-189 of convert, on the normalised units; None is Raise
ConvertNormalized(value, norm_from, norm_to) ==
    IF norm_from = norm_to THEN Ok(value)
    ELSE IF <<norm_from, norm_to>> \in DOMAIN UNIT_CONVERSIONS
    THEN Ok(PyFloat(RMul(NumOf(value), UNIT_CONVERSIONS[<<norm_from, norm_to>>])))
    ELSE IF <<norm_to, norm_from>> \in DOMAIN UNIT_CONVERSIONS
    THEN Ok(PyFloat(RDiv(NumOf(value), UNIT_CONVERSIONS[<<norm_to, norm_from>>])))
    ELSE Raise

\* UnitConverter.convert
convert(value, from_unit, to_unit) ==
    ConvertNormalized(value, normalize_unit(from_unit), normalize_unit(to_unit))

\* The same conversion in binary64, every operation rounded as Python rounds
\* it.  The factors the table writes as a literal; the others are written
\* 1 / literal and are quotients of floats.
Literals == {Gallon, Pound, Inch, Foot, RInt(16), RInt(1000), RInt(1), RInt(100)}
Factor64(r) == IF r \in Literals THEN FRat(r) ELSE FDiv(FOne, FRat(Inverse(r)))

\* lines 175-189 of convert on a float, on the normalised units
ConvertNormalized64(value, norm_from, norm_to) ==
    IF norm_from = norm_to THEN Ok(value)
    ELSE IF <<norm_from, norm_to>> \in DOMAIN UNIT_CONVERSIONS
    THEN Ok(FMul(value, Factor64(UNIT_CONVERSIONS[<<norm_from, norm_to>>])))
    ELSE IF <<norm_to, norm_from>> \in DOMAIN UNIT_CONVERSIONS
    THEN Ok(FDiv(value, Factor64(UNIT_CONVERSIONS[<<norm_to, norm_from>>])))
    ELSE Raise

\* UnitConverter.convert on a float
convert64(value, from_unit, to_unit) ==
    ConvertNormalized64(value, normalize_unit(from_unit), normalize_unit(to_unit))

\* re.sub(r'^[$]', '', text): the other currency signs of the pattern are
\* outside the alphabet of the model
DropCurrencySign(text) == IF At(text, 1) = "$" THEN Tail(text) ELSE text

IsNumberChar(c) == IsDigit(c) \/ c = "." \/ c = ","
RECURSIVE NumberRun(_, _)
NumberRun(s, i) ==
    IF i <= Len(s) /\ IsNumberChar(Ch(s, i)) THEN 1 + NumberRun(s, i + 1) ELSE 0
RECURSIVE LetterRun(_, _)
LetterRun(s, i) ==
    IF i <= Len(s) /\ IsLetter(Ch(s, i)) THEN 1 + LetterRun(s, i + 1) ELSE 0

\* ([a-zA-Z]+(?:\s+[a-zA-Z]+)?) at position i, where a letter stands: the end
\* of the first word, or of the second one when blanks and a word follow
SecondWordEnd(s, first_end, next) ==
    IF next > first_end + 1 /\ LetterRun(s, next) > 0
    THEN next + LetterRun(s, next) - 1 ELSE first_end
UnitWordsEnd(s, first_end) == SecondWordEnd(s, first_end, SkipSp(s, first_end + 1))
UnitWords(s, i) == SubSeq(s, i, UnitWordsEnd(s, i + LetterRun(s, i) - 1))

\* group 1 of re.search(r'[\d.,]+(?:\s*)([a-zA-Z]+(?:\s+[a-zA-Z]+)?)', s)
\* from position i on, "" when there is no match
RECURSIVE UnitAfterNumber(_, _)
UnitAfterNumber(s, i) ==
    IF i > Len(s) THEN ""
    ELSE IF NumberRun(s, i) = 0 THEN UnitAfterNumber(s, i + 1)
    ELSE IF LetterRun(s, SkipSp(s, i + NumberRun(s, i))) > 0
    THEN UnitWords(s, SkipSp(s, i + NumberRun(s, i)))
    ELSE UnitAfterNumber(s, i + NumberRun(s, i))

\* group 1 of re.match(r'([a-zA-Z]+)\s+[\d.,]+', s), "" when there is no match
UnitBeforeNumber(s) ==
    IF /\ LetterRun(s, 1) > 0
       /\ SkipSp(s, LetterRun(s, 1) + 1) > LetterRun(s, 1) + 1
       /\ NumberRun(s, SkipSp(s, LetterRun(s, 1) + 1)) > 0
    THEN SubSeq(s, 1, LetterRun(s, 1)) ELSE ""

NonUnits ==
    {"per", "each", "total", "max", "min", "up", "to", "at", "for", "with", "and", "or"}
CurrencyPrefixes == {"usd", "eur", "gbp", "cad"}
MaxUnitLength == 20

\* lines 218-230: the unit after the number unless it is a filler word or
\* too long, else a currency code before the number, else None
PrefixUnit(potential_unit) ==
    IF potential_unit \in CurrencyPrefixes THEN potential_unit ELSE ""
SuffixUnit(text, potential_unit) ==
    IF potential_unit # "" /\ potential_unit \notin NonUnits
       /\ Len(potential_unit) <= MaxUnitLength
    THEN potential_unit
    ELSE PrefixUnit(lower(UnitBeforeNumber(text)))
UnitIn(text) == SuffixUnit(text, lower(UnitAfterNumber(text, 1)))

\* UnitConverter.extract_unit_from_string
extract_unit_from_string(text) ==
    IF text = "" THEN "" ELSE UnitIn(Strip(DropCurrencySign(Strip(text))))

(***************************************************************************)
(* services/ai_extractor.py: what extract_from_content does with the JSON  *)
(* object the model returned.  The crawled page is what the two title      *)
(* look-ups find in it.                                                    *)
(***************************************************************************)
\* float(x) if field.type == "decimal" else int(x)
TypedNumber(field, x) ==
    IF field.type = "decimal" THEN FloatResult(float(x)) ELSE IntResult(int(x))

\* lines 355-362: the value as stored, a float for a decimal field, an int
\* for an integer field, unchanged for the other types
FinalValue(field, extracted_value) ==
    CASE field.type = "decimal" -> PyFloat(NumOf(extracted_value))
      [] field.type = "integer" -> PyInt(RTrunc(NumOf(extracted_value)))
      [] OTHER -> extracted_value

\* lines 345-353: the converted value, the extracted one when convert gives None
Converted(extracted_value, c) == IF c.ok THEN c.val ELSE extracted_value
ConvertBetween(extracted_value, extracted_norm, schema_norm) ==
    IF are_units_compatible(extracted_norm, schema_norm)
    THEN Converted(extracted_value, convert(extracted_value, extracted_norm, schema_norm))
    ELSE extracted_value

\* lines 334-353
ConvertToSchemaUnit(field, extracted_value, extracted_norm, schema_norm) ==
    IF field.unit # "" /\ extracted_norm # "" /\ extracted_norm # schema_norm
    THEN ConvertBetween(extracted_value, extracted_norm, schema_norm)
    ELSE extracted_value

\* lines 332-366: a value was extracted, with a unit or None
Store(field, data, extracted_value, extracted_unit) ==
    Put(data, field.name,
        FinalValue(field, ConvertToSchemaUnit(field, extracted_value,
                                              normalize_unit(extracted_unit),
                                              normalize_unit(field.unit))))

\* Case 1 (lines 282-284): the value is a number
NumberCase(field, data, value) ==
    Store(field, data, TypedNumber(field, value).val, field.unit)

UnitText(unit) == IF unit.t = "str" THEN unit.v ELSE ""

\* Case 2 (lines 287-295): the value is an object with a value
ObjectConverted(field, data, c, unit) ==
    IF c.ok THEN Store(field, data, c.val, UnitText(unit)) ELSE data
ObjectCaseDropped(field, data, obj) == Del(data, field.name)
ObjectCase(field, data, obj) ==
    IF obj.value = None THEN Del(data, field.name)
    ELSE ObjectConverted(field, data, TypedNumber(field, obj.value), Get(obj, "unit"))

\* line 304
IsPriceField(field) == lower(field.name) = "price" \/ upper(field.unit) \in {"USD", "CURRENCY"}

\* lines 305-311
PriceParsed(field, data, c) ==
    IF c.ok THEN Store(field, data, PyFloat(c.val),
                       IF field.unit # "" THEN field.unit ELSE "USD")
    ELSE data
PriceCase(field, data, value_str) ==
    PriceParsed(field, data, FloatOfStr(Replace(Replace(value_str, "$", ""), ",", "")))

\* lines 313-329
NumberIn(field, value_str) ==
    IF field.type = "decimal" THEN SearchDecimal(value_str) ELSE SearchInt(value_str)
NumberMatched(field, match) ==
    IF field.type = "decimal" THEN PyFloat(DecimalLiteral(match)) ELSE PyInt(NatOf(match))
UnitOrSchemaUnit(field, extracted_unit) ==
    IF extracted_unit # "" THEN extracted_unit ELSE field.unit
TextMatched(field, data, value_str, match) ==
    IF match = "" THEN data
    ELSE Store(field, data, NumberMatched(field, match),
               UnitOrSchemaUnit(field, extract_unit_from_string(value_str)))

\* Case 3 (lines 298-329): the value is a string
StringCase(field, data, value_str) ==
    IF IsPriceField(field) THEN PriceCase(field, data, value_str)
    ELSE TextMatched(field, data, value_str, NumberIn(field, value_str))

\* one turn of the pre-processing loop (lines 267-377) for a field of the data
PreprocessValue(field, data, value) ==
    IF value \in {None, PyStr("null"), PyStr("none")} THEN data
    ELSE IF IsNumber(value) THEN NumberCase(field, data, value)
    ELSE IF value.t = "dict" /\ "value" \in DOMAIN value.v
    THEN ObjectCase(field, data, value.v)
    ELSE IF value.t = "str" THEN StringCase(field, data, Strip(value.v))
    ELSE Del(data, field.name)

RECURSIVE Preprocess(_, _, _)
Preprocess(fields, i, data) ==
    IF i > Len(fields) THEN data
    ELSE IF fields[i].name \notin DOMAIN data THEN Preprocess(fields, i + 1, data)
    ELSE Preprocess(fields, i + 1,
                    PreprocessValue(fields[i], data, data[fields[i].name]))

\* lines 384-394: a value that is still an object
TypedOrNone(c) == IF c.ok THEN c.val ELSE None
CleanObject(field, obj) ==
    IF "value" \in DOMAIN obj THEN TypedOrNone(TypedNumber(field, obj.value)) ELSE None

\* lines 396-412: a string left in a numeric field
CleanMatched(field, match) == IF match = "" THEN None ELSE NumberMatched(field, match)
CleanString(field, text) == CleanMatched(field, NumberIn(field, text))

\* one turn of the final clean-up loop (lines 380-412)
CleanValue(field, value) ==
    IF value.t = "dict" THEN CleanObject(field, value.v)
    ELSE IF value.t = "str" /\ field.type \in NumericTypes THEN CleanString(field, value.v)
    ELSE value

RECURSIVE Cleanup(_, _, _)
Cleanup(fields, i, data) ==
    IF i > Len(fields) THEN data
    ELSE IF fields[i].name \notin DOMAIN data THEN Cleanup(fields, i + 1, data)
    ELSE Cleanup(fields, i + 1,
                 Put(data, fields[i].name, CleanValue(fields[i], data[fields[i].name])))

\* what a look-up of the product title in the page gives: the text of the
\* element found, "" when there is none
NoTitles == {"null", "none", "unknown", "n/a"}
MinTitleLength == 5
UsableTitle(title) == Len(title) > MinTitleLength

\* lines 233-255: the name of the data, taken from the page when the model
\* gave none
NameMissing(data) ==
    \/ "name" \notin DOMAIN data
    \/ ~Truthy(data.name)
    \/ lower(Strip(data.name.v)) \in NoTitles
EnsureName(data, page) ==
    IF NameMissing(data) /\ UsableTitle(page.first_title)
    THEN Put(data, "name", PyStr(page.first_title)) ELSE data

\* lines 417-433: the name of the result
NameGiven(name_value) ==
    Truthy(name_value) /\ name_value \notin {PyStr(n) : n \in NoTitles}
WithNameUndeclared(normalized, name_value, page) ==
    IF NameGiven(name_value) /\ "name" \notin DOMAIN normalized
    THEN Put(normalized, "name", PyStr(Strip(StrValue(name_value))))
    ELSE IF ~Truthy(Get(normalized, "name")) /\ UsableTitle(page.last_title)
    THEN Put(normalized, "name", PyStr(page.last_title))
    ELSE normalized
WithName(normalized, name_value, page) ==
    IF NameGiven(name_value)
    THEN Put(normalized, "name", PyStr(Strip(StrValue(name_value))))
    ELSE IF ~Truthy(Get(normalized, "name")) /\ UsableTitle(page.last_title)
    THEN Put(normalized, "name", PyStr(page.last_title))
    ELSE normalized

\* lines 257-435, on the data with its name ensured
Extracted(data, sch, page) ==
    WithName(normalize_data(Cleanup(sch.fields, 1, Preprocess(sch.fields, 1, data)), sch),
             Get(data, "name"), page)

\* extract_from_content from the parsed JSON object on: an AttributeError
\* when the name is a number (it has no strip)
extract_from_content(json, sch, page) ==
    IF "name" \in DOMAIN json /\ Truthy(json.name) /\ json.name.t # "str"
    THEN Raise
    ELSE Ok(Extracted(EnsureName(json, page), sch, page))

(***************************************************************************)
(* services/alert_calculator.py.  A comparison result is [listing_id,      *)
(* comparison] and its comparison [fields, metrics]; each of the two is a  *)
(* dict in insertion order, a sequence of entries [name, alert] (the alert *)
(* is all the calculator reads of an entry).  A price-history record is    *)
(* [listing_id, recorded_at, data].  A list the code builds from a set     *)
(* (the listing alerts, the alerts of one listing) has no particular order *)
(* and is the set of its elements here.  Percentages are exact.            *)
(***************************************************************************)
\* set(xs) of a list
ListSet(xs) == {xs[i] : i \in 1..Len(xs)}

\* sub in s
RECURSIVE ContainsFrom(_, _, _)
ContainsFrom(s, sub, i) ==
    IF i + Len(sub) - 1 > Len(s) THEN FALSE
    ELSE StartsWith(s, i, sub) \/ ContainsFrom(s, sub, i + 1)
Contains(s, sub) == ContainsFrom(s, sub, 1)

Red == PyStr("red")
Yellow == PyStr("yellow")

NoAlerts == [price_drops |-> <<>>, spec_disadvantages |-> <<>>, price_increases |-> <<>>]

\* lines 34-39: a red alert of a field is a price drop when the name of the
\* field holds "price", a spec disadvantage otherwise
RedAlertAnyName(entry, listing_id, acc) ==
    IF entry.alert # Red THEN acc
    ELSE [acc EXCEPT !.price_drops = Append(@, listing_id)]
RedAlert(entry, listing_id, acc) ==
    IF entry.alert # Red THEN acc
    ELSE IF Contains(lower(entry.name), "price")
    THEN [acc EXCEPT !.price_drops = Append(@, listing_id)]
    ELSE [acc EXCEPT !.spec_disadvantages = Append(@, listing_id)]

\* the loop of lines 33-39 over the fields of a comparison
RECURSIVE RedAlerts(_, _, _, _)
RedAlerts(entries, i, listing_id, acc) ==
    IF i > Len(entries) THEN acc
    ELSE RedAlerts(entries, i + 1, listing_id, RedAlert(entries[i], listing_id, acc))

\* lines 43-44 and 49-50: a yellow alert of a field or of a metric
YellowAlert(entry, listing_id, acc) ==
    IF entry.alert = Yellow
    THEN [acc EXCEPT !.spec_disadvantages = Append(@, listing_id)]
    ELSE acc

\* the loops of lines 42-44 (fields) and 48-50 (metrics)
RECURSIVE YellowAlerts(_, _, _, _)
YellowAlerts(entries, i, listing_id, acc) ==
    IF i > Len(entries) THEN acc
    ELSE YellowAlerts(entries, i + 1, listing_id,
                      YellowAlert(entries[i], listing_id, acc))

\* one turn of the loop over comparison_results (lines 28-50)
AnalyzeResult(r, acc) ==
    YellowAlerts(r.comparison.metrics, 1, r.listing_id,
        YellowAlerts(r.comparison.fields, 1, r.listing_id,
            RedAlerts(r.comparison.fields, 1, r.listing_id, acc)))

RECURSIVE AnalyzeResults(_, _, _)
AnalyzeResults(results, i, acc) ==
    IF i > Len(results) THEN acc
    ELSE AnalyzeResults(results, i + 1, AnalyzeResult(results[i], acc))

\* lines 54-58: the keys of listing_history, in the order they are first met
RECURSIVE ListingIds(_, _, _)
ListingIds(history, i, ids) ==
    IF i > Len(history) THEN ids
    ELSE IF history[i].listing_id # "" /\ history[i].listing_id \notin ListSet(ids)
    THEN ListingIds(history, i + 1, Append(ids, history[i].listing_id))
    ELSE ListingIds(history, i + 1, ids)

\* listing_history[listing_id]
HistoryOf(history, listing_id) ==
    SelectSeq(history, LAMBDA r : r.listing_id = listing_id)

\* the characters of a timestamp in the order of their code points
CodePoints == "-0123456789:T"

\* s < t of two str
RECURSIVE StrLess(_, _)
StrLess(s, t) ==
    IF t = "" THEN FALSE
    ELSE IF s = "" THEN TRUE
    ELSE IF Ch(s, 1) = Ch(t, 1) THEN StrLess(Tail(s), Tail(t))
    ELSE IndexIn(Ch(s, 1), CodePoints) < IndexIn(Ch(t, 1), CodePoints)

\* line 66, history.sort(key=recorded_at): the sort is stable, a record goes
\* behind the records that are not after it
RECURSIVE InsertByRecordedAt(_, _)
InsertByRecordedAt(sorted, r) ==
    IF sorted = <<>> THEN <<r>>
    ELSE IF StrLess(r.recorded_at, Head(sorted).recorded_at) THEN <<r>> \o sorted
    ELSE <<Head(sorted)>> \o InsertByRecordedAt(Tail(sorted), r)

RECURSIVE SortByRecordedAt(_, _, _)
SortByRecordedAt(history, i, sorted) ==
    IF i > Len(history) THEN sorted
    ELSE SortByRecordedAt(history, i + 1, InsertByRecordedAt(sorted, history[i]))

\* lines 77-84: the price of a data object, under the last of the three keys
\* it has
PriceKeys == <<"price", "Price", "PRICE">>
RECURSIVE PriceFrom(_, _, _)
PriceFrom(data, i, price) ==
    IF i > Len(PriceKeys) THEN price
    ELSE PriceFrom(data, i + 1,
                   IF PriceKeys[i] \in DOMAIN data THEN data[PriceKeys[i]] ELSE price)
PriceOf(data) == PriceFrom(data, 1, None)

\* lines 87-97 on the outcomes of the two float() calls
Trend(listing_id, first_price, last_price, acc) ==
    IF ~(first_price.ok /\ last_price.ok) THEN acc
    ELSE IF RLt(first_price.val, last_price.val)
    THEN [acc EXCEPT !.price_increases = Append(@, listing_id)]
    ELSE IF RLt(last_price.val, first_price.val)
              /\ listing_id \notin ListSet(acc.price_drops)
    THEN [acc EXCEPT !.price_drops = Append(@, listing_id)]
    ELSE acc

\* lines 86-97: both prices have to be truthy
PriceChange(listing_id, first_price, last_price, acc) ==
    IF Truthy(first_price) /\ Truthy(last_price)
    THEN Trend(listing_id, float(first_price), float(last_price), acc)
    ELSE acc

\* lines 69-97 on the sorted history of a listing
FirstToLast(listing_id, sorted, acc) ==
    PriceChange(listing_id, PriceOf(sorted[1].data),
                PriceOf(sorted[Len(sorted)].data), acc)

\* one turn of the loop over listing_history (lines 61-97)
ListingTrend(listing_id, history, acc) ==
    IF Len(history) < 2 THEN acc
    ELSE FirstToLast(listing_id, SortByRecordedAt(history, 1, <<>>), acc)

RECURSIVE PriceTrends(_, _, _, _)
PriceTrends(history, ids, i, acc) ==
    IF i > Len(ids) THEN acc
    ELSE PriceTrends(history, ids, i + 1,
                     ListingTrend(ids[i], HistoryOf(history, ids[i]), acc))

\* lines 106-108: the share of the listings in percent, the int 0 for no
\* listing
Percentage(count, total_listings) ==
    IF total_listings > 0
    THEN PyFloat(RMul(Rat(count, total_listings), RInt(100)))
    ELSE PyInt(0)

\* -price_drop_pct
Negated(x) == IF x.t = "int" THEN PyInt(0 - x.v) ELSE PyFloat(RSub(RInt(0), x.v))

\* the labels of the field alerts and of the metric alerts of a result
\* (lines 146-155)
FieldLabels(r) ==
    {IF e.alert = Red THEN "price_drop" ELSE "spec_disadvantage" :
        e \in {x \in ListSet(r.comparison.fields) : x.alert \in {Red, Yellow}}}
MetricLabels(r) ==
    {"spec_disadvantage" :
        e \in {x \in ListSet(r.comparison.metrics) : x.alert = Yellow}}

\* AlertCalculatorService._get_alerts_for_listing
get_alerts_for_listing(listing_id, results) ==
    UNION {FieldLabels(r) \cup MetricLabels(r) :
              r \in {x \in ListSet(results) : x.listing_id = listing_id}}

\* lines 163-168 on the alerts of the listing
Severity(alerts) ==
    IF "price_drop" \in alerts /\ "spec_disadvantage" \in alerts THEN "high"
    ELSE IF "price_drop" \in alerts \/ "spec_disadvantage" \in alerts THEN "medium"
    ELSE "low"

\* AlertCalculatorService._calculate_severity
calculate_severity(listing_id, results) ==
    Severity(get_alerts_for_listing(listing_id, results))

\* set(r["listing_id"] for r in comparison_results)
Listings(results) == {results[i].listing_id : i \in 1..Len(results)}

\* lines 100-133: the returned dictionary, given the three lists
Summary(results, acc) ==
    [summary |->
        [price_drops |->
            [count |-> Cardinality(ListSet(acc.price_drops)),
             percentage_change |->
                 Negated(Percentage(Cardinality(ListSet(acc.price_drops)),
                                    Cardinality(Listings(results))))],
         spec_disadvantages |->
            [count |-> Cardinality(ListSet(acc.spec_disadvantages)),
             percentage_change |->
                 Percentage(Cardinality(ListSet(acc.spec_disadvantages)),
                            Cardinality(Listings(results)))],
         price_increases |->
            [count |-> Cardinality(ListSet(acc.price_increases)),
             percentage_change |->
                 Percentage(Cardinality(ListSet(acc.price_increases)),
                            Cardinality(Listings(results)))]],
     listing_alerts |->
        {[listing_id |-> id,
          alerts |-> get_alerts_for_listing(id, results),
          severity |-> calculate_severity(id, results)] : id \in Listings(results)}]

\* AlertCalculatorService.calculate_summary
calculate_summary(results, history) ==
    Summary(results,
            PriceTrends(history, ListingIds(history, 1, <<>>), 1,
                        AnalyzeResults(results, 1, NoAlerts)))

(***************************************************************************)
(* Inputs of the model.                                                    *)
(***************************************************************************)
\* all strings of at most n characters of the set chars
RECURSIVE Strings(_, _)
Strings(chars, n) ==
    IF n = 0 THEN {""}
    ELSE LET shorter == Strings(chars, n - 1)
         IN  shorter \cup {s \o c : s \in shorter, c \in chars}

\* all records with keys among names and values among values
Records(names, values) == UNION {[K -> values] : K \in SUBSET names}

NoValue == None
NoSchema == ProductSchema(<<>>, <<>>)
NoCollab == [embedding |-> "none"]

\* formulas: an identifier character, a digit, operators, parentheses and a
\* character outside the allowed set
FormulaChars == {"a", "1", "/", "+", ";", "(", ")"}
Formulas == Strings(FormulaChars, MaxFormulaLen)

\* values of the fields a formula refers to
MetricValues ==
    {PyInt(n) : n \in 0..MaxNum}
        \cup {None, PyBool(TRUE), PyStr("2"), PyStr("x")}
MetricRecords == Records({"a", "aa"}, MetricValues)

(***************************************************************************)
(* Evaluation of one formula against one record.                           *)
(***************************************************************************)
InitFormula ==
    /\ pc = "start"
    /\ formula \in Formulas
    /\ user_data \in MetricRecords
    /\ competitor_data = EmptyDict
    /\ schema = NoSchema
    /\ raw = EmptyDict
    /\ collab = NoCollab
    /\ result = NoValue
    /\ comparison_results = <<>>
    /\ price_history = <<>>

EvaluateFormula ==
    /\ pc = "start"
    /\ pc' = "evaluated"
    /\ result' = evaluate_formula(formula, user_data)
    /\ UNCHANGED <<schema, user_data, competitor_data, formula, raw, collab,
                 comparison_results, price_history>>

NextFormula == EvaluateFormula

SpecFormula == InitFormula /\ [][NextFormula]_vars

\* the identifiers of the formula under evaluation
Identifiers == LET ids == FindIdentifiers(formula, 1) IN {ids[i] : i \in 1..Len(ids)}
\* an identifier of the formula is not a key of the record
MissingIdentifier == \E id \in Identifiers : id \notin DOMAIN user_data
\* an identifier of the formula names a field that float() rejects
NonNumericField ==
    \E id \in Identifiers : id \in DOMAIN user_data /\ ~float(user_data[id]).ok
\* the formula holds a character that is neither allowed nor part of a word
OtherCharacter ==
    \E i \in 1..Len(formula) :
        Ch(formula, i) \notin AllowedChars /\ ~IsWordChar(Ch(formula, i))

\* C5: evaluate_formula fails closed: a missing identifier, a non-numeric
\* referenced field or a character outside 0-9 + - * / ( ) . and blank gives
\* the ValueError without eval being reached, so a number is returned only
\* when every identifier names a numeric field of the record.
C5_FailsClosed ==
    pc = "evaluated" =>
        ((MissingIdentifier \/ NonNumericField \/ OtherCharacter) =>
            ~result.ok /\ ~result.evaluated)


\* the formula with every whole identifier replaced by the text of its
\* field's value, from position i on
RECURSIVE ReplaceTokens(_, _, _)
ReplaceTokens(s, i, data) ==
    IF i > Len(s) THEN ""
    ELSE LET n == WordRun(s, i)
         IN  IF n = 0 THEN Ch(s, i) \o ReplaceTokens(s, i + 1, data)
             ELSE IF IsDigit(Ch(s, i))
             THEN SubSeq(s, i, i + n - 1) \o ReplaceTokens(s, i + n, data)
             ELSE str(data[SubSeq(s, i, i + n - 1)]) \o ReplaceTokens(s, i + n, data)

\* every identifier of the formula names a field that holds an integer
IntegerFields ==
    \A id \in Identifiers : id \in DOMAIN user_data /\ user_data[id].t = "int"

\* C28: for a formula whose identifiers all name numeric fields of the
\* record, evaluate_formula returns the value of the expression obtained by
\* replacing each whole identifier by the value of its field, also when one
\* field name is part of another identifier of the formula.
C28_WholeIdentifiers ==
    pc = "evaluated" /\ IntegerFields /\ eval(ReplaceTokens(formula, 1, user_data)).ok =>
        /\ result.ok
        /\ result.val = PyFloat(eval(ReplaceTokens(formula, 1, user_data)).val)

(***************************************************************************)
(* Comparison of a user record with a competitor record.                   *)
(***************************************************************************)
\* values of a field of the two records
FieldValues ==
    {PyInt(n) : n \in 0..MaxNum} \cup {None, PyStr("1"), PyStr("x")}
CompareRecords == Records({"a", "b"}, FieldValues)

\* field a of any type and direction, a fixed decimal field b
CompareFieldLists ==
    {<<FieldDefinition("a", ty, "", dir, TRUE),
       FieldDefinition("b", "decimal", "", "higher", FALSE)>> :
        ty \in FieldTypes, dir \in Directions}

\* a metric over a and b that may fail (division by zero, a field that is
\* missing or not numeric, a character that is not allowed), then one over b
MetricFormulas == {"a/b", "a+b", "b;a", "a-c"}
CompareMetricLists ==
    {<<MetricDefinition("m1", f, dir), MetricDefinition("m2", "b", "lower")>> :
        f \in MetricFormulas, dir \in Directions}

InitCompare ==
    /\ pc = "start"
    /\ schema \in {ProductSchema(fs, ms) :
                      fs \in CompareFieldLists, ms \in CompareMetricLists}
    /\ user_data \in CompareRecords
    /\ competitor_data \in CompareRecords
    /\ formula = ""
    /\ raw = EmptyDict
    /\ collab = NoCollab
    /\ result = NoValue
    /\ comparison_results = <<>>
    /\ price_history = <<>>

Compare ==
    /\ pc = "start"
    /\ pc' = "compared"
    /\ result' = compare(user_data, competitor_data, schema)
    /\ UNCHANGED <<schema, user_data, competitor_data, formula, raw, collab,
                 comparison_results, price_history>>

NextCompare == Compare

SpecCompare == InitCompare /\ [][NextCompare]_vars

FieldsOf(sch) == {sch.fields[i] : i \in 1..Len(sch.fields)}
MetricsOf(sch) == {sch.metrics[i] : i \in 1..Len(sch.metrics)}
\* the field is present and non-null in both records
InBoth(name) == Get(user_data, name) # None /\ Get(competitor_data, name) # None
\* the field is numerically coercible in both records
CoercibleInBoth(name) ==
    float(Get(user_data, name)).ok /\ float(Get(competitor_data, name)).ok

\* C1: a numeric field that is non-null and numerically coercible in both
\* records is reported with difference = competitor - user; under "lower" a
\* lower competitor value is a competitor advantage with a red alert, under
\* "higher" a higher one is a competitor advantage with a yellow alert, the
\* opposite order is a user advantage and equality is "equal", both without
\* alert.
C1_NumericFieldRule ==
    pc = "compared" =>
        \A f \in FieldsOf(schema) :
            (f.type \in NumericTypes /\ InBoth(f.name) /\ CoercibleInBoth(f.name)) =>
                LET u == float(Get(user_data, f.name)).val
                    c == float(Get(competitor_data, f.name)).val
                    e == result.fields[f.name]
                    better == IF f.compareDirection = "lower"
                              THEN RLt(c, u) ELSE RLt(u, c)
                    colour == IF f.compareDirection = "lower"
                              THEN PyStr("red") ELSE PyStr("yellow")
                IN  /\ f.name \in DOMAIN result.fields
                    /\ e.difference = PyFloat(RSub(c, u))
                    /\ better => e.advantage = "competitor" /\ e.alert = colour
                    /\ (~better /\ c # u) => e.advantage = "user" /\ e.alert = None
                    /\ c = u => e.advantage = "equal" /\ e.alert = None

\* a lower-is-better numeric field on which the competitor is strictly lower
C1_Witness ==
    /\ pc = "compared"
    /\ \E f \in FieldsOf(schema) :
          /\ f.type \in NumericTypes /\ f.compareDirection = "lower"
          /\ InBoth(f.name) /\ CoercibleInBoth(f.name)
          /\ RLt(float(Get(competitor_data, f.name)).val,
                 float(Get(user_data, f.name)).val)
          /\ result.fields[f.name].alert = PyStr("red")

\* the metric evaluates for the user record and for the competitor record
Evaluable(m) ==
    calculate_metric(m, user_data).ok /\ calculate_metric(m, competitor_data).ok

\* C6: a metric whose evaluation fails for either record does not make
\* compare raise; exactly the failing metrics are missing from the result,
\* every evaluable metric and every comparable field is still returned.
C6_FailedMetricOmitted ==
    pc = "compared" =>
        /\ ~result.raised
        /\ \A m \in MetricsOf(schema) :
              m.name \in DOMAIN result.metrics <=> Evaluable(m)
        /\ \A f \in FieldsOf(schema) :
              InBoth(f.name) => f.name \in DOMAIN result.fields

\* one metric failed, another one and a field were still compared
C6_Witness ==
    /\ pc = "compared"
    /\ \E m \in MetricsOf(schema) : ~Evaluable(m) /\ m.name \notin DOMAIN result.metrics
    /\ \E m \in MetricsOf(schema) : Evaluable(m) /\ m.name \in DOMAIN result.metrics
    /\ DOMAIN result.fields # {}

\* C7: the fields part of a comparison has an entry for a schema field
\* exactly when the field is present and non-null in both records, and it
\* has no other entries.
C7_FieldsIffInBoth ==
    pc = "compared" =>
        /\ \A f \in FieldsOf(schema) : f.name \in DOMAIN result.fields <=> InBoth(f.name)
        /\ DOMAIN result.fields \subseteq {f.name : f \in FieldsOf(schema)}

\* one field is compared while another, null or missing on one side only,
\* is skipped
C7_Witness ==
    /\ pc = "compared"
    /\ \E f \in FieldsOf(schema) : f.name \in DOMAIN result.fields
    /\ \E f \in FieldsOf(schema) :
          /\ f.name \notin DOMAIN result.fields
          /\ Get(user_data, f.name) # None
          /\ Get(competitor_data, f.name) = None

\* C8: a metric entry carries the alert yellow exactly when its advantage is
\* "competitor", that is when the competitor value is strictly better in the
\* direction of the metric; otherwise it carries no alert, and never red.
C8_MetricAlertYellow ==
    pc = "compared" =>
        \A m \in MetricsOf(schema) :
            m.name \in DOMAIN result.metrics =>
                LET e == result.metrics[m.name]
                    better == IF m.compareDirection = "lower"
                              THEN RLt(e.competitor.v, e.user.v)
                              ELSE RLt(e.user.v, e.competitor.v)
                IN  /\ e.alert \in {PyStr("yellow"), None}
                    /\ e.alert = PyStr("yellow") <=> e.advantage = "competitor"
                    /\ e.advantage = "competitor" <=> better

\* a lower-is-better metric on which the competitor is strictly lower
C8_Witness ==
    /\ pc = "compared"
    /\ \E m \in MetricsOf(schema) :
          /\ m.compareDirection = "lower"
          /\ m.name \in DOMAIN result.metrics
          /\ RLt(result.metrics[m.name].competitor.v, result.metrics[m.name].user.v)
          /\ result.metrics[m.name].alert = PyStr("yellow")


(***************************************************************************)
(* Validation and normalisation of one record against one schema.          *)
(***************************************************************************)
\* raw values of a field: numbers, strings with and without a number,
\* booleans, null, {value, unit} objects and an object without value
RawNumbers == {PyInt(n) : n \in 0..MaxNum} \cup {PyFloat(<<5, 2>>)}
RawStrings == {PyStr("12"), PyStr("1.6 gal"), PyStr("-5"), PyStr("x"), PyStr("")}
RawScalars == RawNumbers \cup RawStrings \cup {PyBool(TRUE), PyBool(FALSE), None}
RawObjects ==
    {ValueUnit(x, PyStr("W")) : x \in {PyInt(1), PyStr("2 W"), PyStr("x"), None}}
        \cup {PyDict([unit |-> PyStr("W")])}
RawValues == RawScalars \cup RawObjects
RawRecords == Records({"a", "b"}, RawValues)

\* field a of any type, required or not, field b an optional field of any type
ValidatedFieldLists ==
    {<<FieldDefinition("a", ta, "", "lower", req),
       FieldDefinition("b", tb, "", "higher", FALSE)>> :
        ta \in FieldTypes, tb \in FieldTypes, req \in BOOLEAN}

InitValidate ==
    /\ pc = "start"
    /\ schema \in {ProductSchema(fs, <<>>) : fs \in ValidatedFieldLists}
    /\ user_data \in RawRecords
    /\ competitor_data = EmptyDict
    /\ formula = ""
    /\ raw = EmptyDict
    /\ collab = NoCollab
    /\ result = NoValue
    /\ comparison_results = <<>>
    /\ price_history = <<>>

\* validate_data_against_schema on the record
Validate ==
    /\ pc = "start"
    /\ pc' = IF ValidateOverflows(schema.fields, user_data) THEN "raised" ELSE "validated"
    /\ result' = IF ValidateOverflows(schema.fields, user_data) THEN NoValue
                 ELSE validate_data_against_schema(user_data, schema)
    /\ UNCHANGED <<schema, user_data, competitor_data, formula, raw, collab,
                 comparison_results, price_history>>

\* normalize_data on the record
Normalize ==
    /\ pc = "start"
    /\ pc' = IF NormalizeOverflows(schema.fields, user_data) THEN "raised" ELSE "normalized"
    /\ result' = IF NormalizeOverflows(schema.fields, user_data) THEN NoValue
                 ELSE normalize_data(user_data, schema)
    /\ UNCHANGED <<schema, user_data, competitor_data, formula, raw, collab,
                 comparison_results, price_history>>

NextValidate == Validate \/ Normalize

SpecValidate == InitValidate /\ [][NextValidate]_vars

NoErrors(data) == validate_data_against_schema(data, schema) = <<>>

\* C3 as stated: for any schema and record, validate_data_against_schema
\* returns zero errors on the record if and only if it returns zero errors on
\* normalize_data of the record.
C3_ValidIffNormalizedValid ==
    pc = "normalized" => (NoErrors(user_data) <=> NoErrors(result))

\* C3, amended: for any schema and record, if validate_data_against_schema
\* returns zero errors on the record then it returns zero errors on
\* normalize_data of the record.
C3_ValidStaysValid ==
    pc = "normalized" => (NoErrors(user_data) => NoErrors(result))

\* a valid record that normalisation changes: a numeric string was parsed
C3_Witness ==
    /\ pc = "normalized"
    /\ NoErrors(user_data)
    /\ \E k \in DOMAIN user_data : user_data[k].t = "str" /\ result[k].t = "float"

\* C4: normalize_data is idempotent: for any record (of numbers, strings,
\* booleans, nulls and {value, unit} objects) and schema, normalising the
\* normalised record gives the normalised record.
C4_NormalizeIdempotent ==
    pc = "normalized" => normalize_data(result, schema) = result

\* a record with a {value, unit} object and a string that the first pass
\* unwraps and parses
C4_Witness ==
    /\ pc = "normalized"
    /\ \E k \in DOMAIN user_data : user_data[k].t = "dict" /\ k \in DOMAIN result
    /\ \E k \in DOMAIN result : user_data[k].t = "str" /\ result[k].t \in {"int", "float"}

(***************************************************************************)
(* Validation of a schema, and of a record of any JSON values against a    *)
(* schema.                                                                 *)
(***************************************************************************)
\* schemas that may repeat a name or leave a name or a label empty, with
\* metrics whose formula names a field or an unknown identifier
SchemaNames == {"", "a", "b"}
Labels == {"", "A"}
LabelledFields ==
    {[FieldDefinition(n, t, "", "lower", req) EXCEPT !.label = l] :
        n \in SchemaNames, t \in {"text", "integer"}, l \in Labels, req \in BOOLEAN}
LabelledFieldLists ==
    {<<>>} \cup {<<f>> : f \in LabelledFields}
           \cup {<<f, g>> : f \in LabelledFields, g \in LabelledFields}
SchemaMetrics == {MetricDefinition(n, f, "lower") : n \in {"m", "n"}, f \in {"a + 1", "zz / a"}}
SchemaMetricLists ==
    {<<>>} \cup {<<m>> : m \in SchemaMetrics}
           \cup {<<m, n>> : m \in SchemaMetrics, n \in SchemaMetrics}
AnySchemas == {ProductSchema(fs, ms) : fs \in LabelledFieldLists, ms \in SchemaMetricLists}

\* records of any JSON value: those of the validated records, an infinite
\* number and strings with a unit
CheckedValues ==
    RawValues \cup {Infinity, PyStr("2000 W"), PyStr("1.6 gallons"), PyStr("1.6")}
CheckedRecords == Records({"a", "b"}, CheckedValues)
\* fields a and b of any type, required or not
CheckedFieldLists ==
    {<<FieldDefinition("a", ta, "", "lower", ra),
       FieldDefinition("b", tb, "", "higher", rb)>> :
        ta \in FieldTypes, tb \in FieldTypes, ra \in BOOLEAN, rb \in BOOLEAN}

InitSchema ==
    /\ pc = "start"
    /\ \/ schema \in AnySchemas /\ user_data = EmptyDict
       \/ /\ schema \in {ProductSchema(fs, <<>>) : fs \in CheckedFieldLists}
          /\ user_data \in CheckedRecords
    /\ competitor_data = EmptyDict
    /\ formula = ""
    /\ raw = EmptyDict
    /\ collab = NoCollab
    /\ result = NoValue
    /\ comparison_results = <<>>
    /\ price_history = <<>>

\* validate_schema on the schema
ValidateSchema ==
    /\ pc = "start"
    /\ pc' = "schema_validated"
    /\ result' = validate_schema(schema)
    /\ UNCHANGED <<schema, user_data, competitor_data, formula, raw, collab,
                 comparison_results, price_history>>

NextSchema == ValidateSchema \/ Validate

SpecSchema == InitSchema /\ [][NextSchema]_vars

\* the field is offending: required and absent from the record, or present
\* with a value that does not pass the type test of the field
Offending(f) ==
    IF f.name \in DOMAIN user_data THEN ~TypeOk(f.type, user_data[f.name])
    ELSE f.required
ErrorsFor(f) == Cardinality({i \in 1..Len(result) : result[i].field = f.name})

\* C21: for a schema with unique field names, validate_data_against_schema
\* never raises and returns exactly one error per offending field (required
\* and absent, or present with a value incompatible with the declared type)
\* and none for any other field.
C21_OneErrorPerOffender ==
    pc \in {"validated", "raised"} /\ ~HasDuplicates(schema.fields) =>
        /\ pc = "validated"
        /\ \A f \in FieldsOf(schema) : ErrorsFor(f) = IF Offending(f) THEN 1 ELSE 0
        /\ Len(result) = Cardinality({f \in FieldsOf(schema) : Offending(f)})

\* what C22 takes a numeric field to accept: a number, or a string with a
\* number in it
Coercible22(value) ==
    \/ IsNumber(value)
    \/ value.t = "str" /\ (SearchDecimal(Strip(value.v)) # "" \/ FloatOfStr(value.v).ok)
Accepted(type, value) ==
    CASE type \in NumericTypes -> Coercible22(value)
      [] type = "boolean" -> value.t = "bool"
      [] type = "text" -> value.t = "str"

\* C22: validate_data_against_schema accepts, on an integer and on a decimal
\* field alike, a number or a string with a number in it, with or without a
\* unit ("2000 W", "1.6 gallons"), and reports any other value on a numeric
\* field; a boolean field accepts only booleans and a text field only
\* strings.
C22_AcceptsCoercible ==
    pc = "validated" /\ ~HasDuplicates(schema.fields) =>
        \A f \in FieldsOf(schema) :
            f.name \in DOMAIN user_data =>
                (ErrorsFor(f) = 0 <=> Accepted(f.type, user_data[f.name]))

TableUnits ==
    {p[1] : p \in DOMAIN UNIT_CONVERSIONS} \cup {p[2] : p \in DOMAIN UNIT_CONVERSIONS}
AliasUnits == DOMAIN UNIT_ALIASES \cup {UNIT_ALIASES[k] : k \in DOMAIN UNIT_ALIASES}
Capitalized(u) == IF u = "" THEN "" ELSE UpperChar(Ch(u, 1)) \o Tail(u)
Casings(u) == {u, lower(u), upper(u), Capitalized(lower(u))}
\* units the tables do not know, the empty unit and units with blanks around
UnknownUnits == {"", "  ", "foo", "Foo", "Foo ", " gal ", " LB", "mph"}
AnyUnits == UNION {Casings(u) : u \in AliasUnits \cup TableUnits} \cup UnknownUnits
ConvertedUnits == TableUnits \cup {"GAL", "Kw", "foo", "", " lb "}
\* the values converted: small integers and two fractions, as floats
ConvertedValues ==
    {FInt(n) : n \in 0..MaxNum + 1} \cup {FInt(7), FRat(<<16, 10>>), FRat(<<7, 100>>)}
Call(value, from_unit, to_unit) ==
    [value |-> value, from_unit |-> from_unit, to_unit |-> to_unit]

InitUnits ==
    /\ pc = "start"
    /\ \/ raw \in {Call(FZero, u, "") : u \in AnyUnits}
       \/ raw \in {Call(x, a, b) : x \in ConvertedValues, a \in ConvertedUnits,
                                    b \in ConvertedUnits}
    /\ schema = NoSchema
    /\ user_data = EmptyDict
    /\ competitor_data = EmptyDict
    /\ formula = ""
    /\ collab = NoCollab
    /\ result = NoValue
    /\ comparison_results = <<>>
    /\ price_history = <<>>

\* normalize_unit on the first unit
NormalizeUnit ==
    /\ pc = "start"
    /\ pc' = "unit_normalized"
    /\ result' = normalize_unit(raw.from_unit)
    /\ UNCHANGED <<schema, user_data, competitor_data, formula, raw, collab,
                 comparison_results, price_history>>

\* convert on the value, from the first unit to the second
ConvertValue ==
    /\ pc = "start"
    /\ pc' = "converted"
    /\ result' = convert64(raw.value, raw.from_unit, raw.to_unit)
    /\ UNCHANGED <<schema, user_data, competitor_data, formula, raw, collab,
                 comparison_results, price_history>>

\* convert on what the first conversion returned, from the second unit back
\* to the first
ConvertBack ==
    /\ pc = "converted"
    /\ result.ok
    /\ pc' = "converted_back"
    /\ result' = convert64(result.val, raw.to_unit, raw.from_unit)
    /\ UNCHANGED <<schema, user_data, competitor_data, formula, raw, collab,
                 comparison_results, price_history>>

NextUnits == NormalizeUnit \/ ConvertValue \/ ConvertBack

SpecUnits == InitUnits /\ [][NextUnits]_vars

\* C24: for any value and any two unit strings, empty, unknown or in any
\* case, convert returns null exactly when are_units_compatible is false of
\* the two units, and a number otherwise.
C24_NullIffIncompatible ==
    pc = "converted" =>
        /\ result = Raise <=> ~are_units_compatible(raw.from_unit, raw.to_unit)
        /\ result # Raise => result.ok /\ DOMAIN result.val = {"s", "m", "e"}

\* a gallon, in capitals, to litres
C24_Witness ==
    /\ pc = "converted"
    /\ raw = Call(FInt(1), "GAL", "L")
    /\ are_units_compatible("GAL", "L")
    /\ result = Ok(FRat(Gallon))

\* the pair of units is registered in the table
Registered == <<raw.from_unit, raw.to_unit>> \in DOMAIN UNIT_CONVERSIONS

\* C25 as stated: for every registered pair (a, b) and every x,
\* convert(x, a, b) is not null and converting it back from b to a gives x.
C25_RoundTripExact ==
    /\ pc = "converted" /\ Registered => result.ok
    /\ pc = "converted_back" /\ Registered => result = Ok(raw.value)

\* 2^-50, a relative error of about 1e-15
Tolerance == [s |-> 1, m |-> <<1>>, e |-> -50]
Close(x, y) == FLe(FAbs(FSub(x, y)), FMul(FAbs(y), Tolerance))

\* C25, amended: for every registered pair (a, b) and every x, convert(x, a,
\* b) is not null and converting it back from b to a gives x within a
\* relative error of 2^-50.
C25_RoundTripClose ==
    /\ pc = "converted" /\ Registered => result.ok
    /\ pc = "converted_back" /\ Registered => result.ok /\ Close(result.val, raw.value)

\* an inch to centimetres and back is not an inch, but the float below it
C25_Witness ==
    /\ pc = "converted_back"
    /\ raw = Call(FInt(1), "in", "cm")
    /\ result.ok /\ result.val # FInt(1) /\ Close(result.val, FInt(1))

\* the unit is an alias in some case, blanks around it aside
AliasOf(unit) == {k \in DOMAIN UNIT_ALIASES : lower(k) = Strip(lower(unit))}

CreateStatus(s, d, saved) ==
    IF validate_schema(s) # <<>> THEN "HTTP_400_BAD_REQUEST"
    ELSE IF ValidateOverflows(s.fields, d) THEN "HTTP_500_INTERNAL_SERVER_ERROR"
    ELSE IF validate_data_against_schema(d, s) # <<>> THEN "HTTP_400_BAD_REQUEST"
    ELSE IF NormalizeOverflows(s.fields, d) THEN "HTTP_500_INTERNAL_SERVER_ERROR"
    ELSE IF ~saved THEN "HTTP_500_INTERNAL_SERVER_ERROR"
    ELSE "HTTP_201_CREATED"

\* what update_product answers when the row exists (lines 109-146).  With a
\* schema and data in the request, line 124 unpacks the ProductSchema of the
\* request with **, which is a TypeError for an object that is no mapping.
UpdateStatus(existing, s, d, saved) ==
    IF s # <<>> /\ validate_schema(s[1]) # <<>> THEN "HTTP_400_BAD_REQUEST"
    ELSE IF d # <<>> /\ s # <<>> THEN "HTTP_500_INTERNAL_SERVER_ERROR"
    ELSE IF d # <<>> /\ ValidateOverflows(existing.fields, d[1])
    THEN "HTTP_500_INTERNAL_SERVER_ERROR"
    ELSE IF d # <<>> /\ validate_data_against_schema(d[1], existing) # <<>>
    THEN "HTTP_400_BAD_REQUEST"
    ELSE IF d # <<>> /\ NormalizeOverflows(existing.fields, d[1])
    THEN "HTTP_500_INTERNAL_SERVER_ERROR"
    ELSE IF ~saved THEN "HTTP_500_INTERNAL_SERVER_ERROR"
    ELSE "HTTP_200_OK"

\* the requests: a schema of the field a, of any type, alone or followed by
\* a text field b, or a schema that repeats a name; records of a and b
ProductFieldLists ==
    {<<FieldDefinition("a", t, "", "lower", req)>> : t \in FieldTypes, req \in BOOLEAN}
    \cup {<<FieldDefinition("a", t, "", "lower", req),
            FieldDefinition("b", "text", "", "higher", TRUE)>> :
            t \in FieldTypes, req \in BOOLEAN}
    \cup {<<FieldDefinition("a", "text", "", "lower", TRUE),
            FieldDefinition("a", "integer", "", "lower", TRUE)>>}
ProductSchemas == {ProductSchema(fs, <<>>) : fs \in ProductFieldLists}
ProductValues ==
    {PyInt(1), PyFloat(<<5, 2>>), PyStr("x"), PyStr("2 W"), PyBool(TRUE), None, Infinity}
ProductRecords == Records({"a", "b"}, ProductValues)
Optional(values) == {<<>>} \cup {<<x>> : x \in values}

InitProducts ==
    /\ pc = "start"
    /\ schema = NoSchema
    /\ user_data = EmptyDict
    /\ competitor_data = EmptyDict
    /\ formula = ""
    /\ raw = EmptyDict
    /\ collab = NoCollab
    /\ result = NoValue
    /\ comparison_results = <<>>
    /\ price_history = <<>>

\* the row the handler wrote, or the row as it was
Written(status, s, d) ==
    /\ result' = PyStr(status)
    /\ pc' = IF status = "HTTP_201_CREATED" THEN "stored" ELSE pc
    /\ schema' = IF status \in {"HTTP_201_CREATED", "HTTP_200_OK"} THEN s ELSE schema
    /\ user_data' = IF status \in {"HTTP_201_CREATED", "HTTP_200_OK"} THEN d ELSE user_data
    /\ UNCHANGED <<competitor_data, formula, raw, collab, comparison_results,
                 price_history>>

\* POST /products when the table has no row yet
CreateProduct ==
    /\ pc = "start"
    /\ \E s \in ProductSchemas, d \in ProductRecords, saved \in BOOLEAN :
          Written(CreateStatus(s, d, saved), s,
                  IF CreateStatus(s, d, saved) = "HTTP_201_CREATED"
                  THEN normalize_data(d, s) ELSE d)

\* PUT /products/{id} on the stored row: the schema of the request replaces
\* the stored one, the normalised data of the request the stored data
UpdateProduct ==
    /\ pc = "stored"
    /\ \E s \in Optional(ProductSchemas), d \in Optional(ProductRecords),
          saved \in BOOLEAN :
          Written(UpdateStatus(schema, s, d, saved),
                  IF s # <<>> THEN s[1] ELSE schema,
                  IF d # <<>> /\ UpdateStatus(schema, s, d, saved) = "HTTP_200_OK"
                  THEN normalize_data(d[1], schema) ELSE user_data)

\* PUT /products/{id} when there is no such row (lines 91-95)
UpdateMissing ==
    /\ pc = "start"
    /\ result' = PyStr("HTTP_404_NOT_FOUND")
    /\ UNCHANGED <<pc, schema, user_data, competitor_data, formula, raw, collab,
                 comparison_results, price_history>>

\* DELETE /products/{id} on the stored row
DeleteProduct ==
    /\ pc = "stored"
    /\ pc' = "start"
    /\ schema' = NoSchema
    /\ user_data' = EmptyDict
    /\ result' = PyStr("HTTP_204_NO_CONTENT")
    /\ UNCHANGED <<competitor_data, formula, raw, collab, comparison_results,
                 price_history>>

NextProducts == CreateProduct \/ UpdateProduct \/ UpdateMissing \/ DeleteProduct

SpecProducts == InitProducts /\ [][NextProducts]_vars

\* C27: after any sequence of accepted create_product and update_product
\* requests the stored data validates against the stored schema; a schema
\* changes only through an update that revalidates the data.
C27_StoredDataValid ==
    pc = "stored" => validate_data_against_schema(user_data, schema) = <<>>

(***************************************************************************)
(* The confidence score of one candidate.                                  *)
(***************************************************************************)
MatchValues ==
    {PyInt(0), PyInt(1), PyInt(MaxNum), PyStr("x"), PyStr("2.5"), None}
MatchRecords == [{"a", "b"} -> MatchValues]

\* field a numeric or text, required or not; field b an optional integer
MatchFieldLists ==
    {<<FieldDefinition("a", ta, "", "lower", req),
       FieldDefinition("b", "integer", "", "higher", FALSE)>> :
        ta \in {"decimal", "text"}, req \in BOOLEAN} \cup {<<>>}

Embeddings == {<<x, y>> : x, y \in {-MaxCoord, 0, MaxCoord}} \cup {<<1>>, <<>>}
Replies == {"0.8", " .75 ", "1", "1.0", "1.5", "10", "0", "Similarity: 0.25", "high"}

EmbeddingOutcome(u, v) ==
    [embedding |-> "ok", user_embedding |-> u, candidate_embedding |-> v,
     llm |-> "unused", reply |-> "", calls |-> <<>>]
LLMOutcome(reply) ==
    [embedding |-> "fail", user_embedding |-> <<>>, candidate_embedding |-> <<>>,
     llm |-> "ok", reply |-> reply, calls |-> <<>>]
BothFailed ==
    [embedding |-> "fail", user_embedding |-> <<>>, candidate_embedding |-> <<>>,
     llm |-> "fail", reply |-> "", calls |-> <<>>]
Outcomes ==
    {EmbeddingOutcome(u, v) : u \in Embeddings, v \in Embeddings}
        \cup {LLMOutcome(reply) : reply \in Replies} \cup {BothFailed}

\* every pair of records with the collaborators down, and every outcome of
\* the collaborators with six pairs of records
InitMatch ==
    /\ pc = "start"
    /\ schema \in {ProductSchema(fs, <<>>) : fs \in MatchFieldLists}
    /\ user_data \in MatchRecords
    /\ competitor_data \in MatchRecords
    /\ collab \in Outcomes
    /\ \/ collab = BothFailed
       \/ /\ user_data = [k \in {"a", "b"} |-> PyInt(MaxNum)]
          /\ competitor_data.a \in {PyInt(0), PyInt(MaxNum)}
          /\ competitor_data.b \in {PyInt(0), PyInt(1), PyInt(MaxNum)}
          /\ schema.fields # <<>> /\ schema.fields[1].required
          /\ schema.fields[1].type = "decimal"
    /\ formula = ""
    /\ raw = EmptyDict
    /\ result = NoValue
    /\ comparison_results = <<>>
    /\ price_history = <<>>

\* calculate_confidence_score on the candidate
CalculateConfidenceScore ==
    /\ pc = "start"
    /\ pc' = "matched"
    /\ result' = calculate_confidence_score(user_data, competitor_data, schema, collab)
    /\ collab' = [collab EXCEPT !.calls = SemanticCalls(collab)]
    /\ UNCHANGED <<schema, user_data, competitor_data, formula, raw,
                 comparison_results, price_history>>

NextMatch == CalculateConfidenceScore

SpecMatch == InitMatch /\ [][NextMatch]_vars

InUnit(score) == FLe(FZero, score) /\ FLe(score, FOne)

\* C9: for any two records, any schema and any outcome of the embedding and
\* LLM collaborators, calculate_confidence_score returns confidence_score =
\* 0.6 * spec_similarity + 0.4 * semantic_similarity, and the three scores
\* are all within [0, 1].
C9_ScoreBounds ==
    pc = "matched" =>
        /\ result.confidence_score =
              FAdd(FMul(FRat(<<6, 10>>), result.spec_similarity),
                   FMul(FRat(<<4, 10>>), result.semantic_similarity))
        /\ InUnit(result.spec_similarity)
        /\ InUnit(result.semantic_similarity)
        /\ InUnit(result.confidence_score)

NonNullInBoth(field) ==
    Get(user_data, field.name) # None /\ Get(competitor_data, field.name) # None
Coercible(field) ==
    float(Get(user_data, field.name)).ok /\ float(Get(competitor_data, field.name)).ok
Comparable(field) ==
    NonNullInBoth(field) /\ (field.type \in NumericTypes => Coercible(field))

\* numeric: max(0, 1 - |candidate - user| / |user|), or for user = 0: 1 if
\* candidate = 0 else 0
RelativeSimilarity(user_num, candidate_num) ==
    IF user_num = FZero THEN (IF candidate_num = FZero THEN FOne ELSE FZero)
    ELSE IF FLt(FSub(FOne, FDiv(FAbs(FSub(candidate_num, user_num)), FAbs(user_num))), FZero)
    THEN FZero
    ELSE FSub(FOne, FDiv(FAbs(FSub(candidate_num, user_num)), FAbs(user_num)))

\* the per-field similarity of the claim: the relative one for two numbers
\* of a numeric field, the exact match for anything else
ClaimedSimilarity(field) ==
    IF field.type \in NumericTypes /\ Coercible(field)
    THEN RelativeSimilarity(FRat(float(Get(user_data, field.name)).val),
                            FRat(float(Get(competitor_data, field.name)).val))
    ELSE IF PyEq(Get(user_data, field.name), Get(competitor_data, field.name))
    THEN FOne ELSE FZero

ClaimedWeight(field) == IF field.required THEN FInt(2) ELSE FInt(1)

\* the sums of the average, added in schema order
RECURSIVE ClaimedSum(_, _)
ClaimedSum(fields, n) ==
    IF n = 0 THEN FZero
    ELSE FAdd(ClaimedSum(fields, n - 1),
              FMul(ClaimedSimilarity(fields[n]), ClaimedWeight(fields[n])))

RECURSIVE ClaimedTotal(_, _)
ClaimedTotal(fields, n) ==
    IF n = 0 THEN FZero
    ELSE FAdd(ClaimedTotal(fields, n - 1), ClaimedWeight(fields[n]))

\* the weighted average over the given fields, 0.0 when there is none
AverageOver(fields) ==
    IF fields = <<>> THEN FZero
    ELSE FDiv(ClaimedSum(fields, Len(fields)), ClaimedTotal(fields, Len(fields)))

\* C10 as stated: _calculate_spec_similarity returns the weighted average,
\* over the schema fields that are non-null in both records, of the per-field
\* similarity with weight 2 for required and 1 for optional fields, and 0.0
\* when no field pair is comparable.
C10_WeightedAverage ==
    pc = "matched" =>
        result.spec_similarity = AverageOver(SelectSeq(schema.fields, NonNullInBoth))

\* C10, amended: the average runs over the schema fields that are non-null
\* in both records and, for integer and decimal fields, whose two values
\* both convert with float(); per-field similarity, weights and the 0.0 for
\* no comparable pair are as stated.
C10_WeightedAverageOfCoercible ==
    pc = "matched" =>
        result.spec_similarity = AverageOver(SelectSeq(schema.fields, Comparable))

\* a required and an optional field, both comparable, with different
\* similarities
C10_Witness ==
    /\ pc = "matched"
    /\ Len(schema.fields) = 2
    /\ schema.fields[1].required /\ ~schema.fields[2].required
    /\ Comparable(schema.fields[1]) /\ Comparable(schema.fields[2])
    /\ ClaimedSimilarity(schema.fields[1]) # ClaimedSimilarity(schema.fields[2])
    /\ FLt(FZero, result.spec_similarity) /\ FLt(result.spec_similarity, FOne)

IsRating(reply) == FloatOfStr(reply).ok
Rating(reply) == FRat(FloatOfStr(reply).val)

\* the cosine of two vectors (0 when either has no length) rescaled from
\* [-1, 1] to [0, 1]
RescaledCosine(u, v) ==
    FDiv(FAdd(Cosine(Dot(u, v, IF Len(u) < Len(v) THEN Len(u) ELSE Len(v)),
                     FMul(Norm(u), Norm(v))),
              FOne),
         FInt(2))

\* C12: _calculate_semantic_similarity takes its steps in a strict order and
\* always returns: the LLM judge is called only after the embedding step has
\* failed; when the embedding step succeeds the result is the rescaled
\* cosine; when it fails and the judge returns a rating the result is that
\* rating clamped to [0, 1]; when the judge fails too the result is 0.5.
C12_FallbackOrder ==
    pc = "matched" =>
        /\ collab.calls \in {<<"embedding">>, <<"embedding", "llm">>}
        /\ collab.calls = <<"embedding", "llm">> => collab.embedding = "fail"
        /\ collab.embedding = "ok" =>
              result.semantic_similarity =
                  RescaledCosine(collab.user_embedding, collab.candidate_embedding)
        /\ collab.embedding = "fail" /\ collab.llm = "ok" /\ IsRating(collab.reply) =>
              result.semantic_similarity = Clamp(Rating(collab.reply))
        /\ collab.embedding = "fail" /\ collab.llm = "fail" =>
              result.semantic_similarity = FHalf


(***************************************************************************)
(* The extraction of a competitor record from the JSON object the model    *)
(* returned, and its comparison against the user's record.                 *)
(***************************************************************************)
ScenarioSchema ==
    ProductSchema(<<FieldDefinition("price", "decimal", "USD", "lower", TRUE),
                    FieldDefinition("wattage", "integer", "W", "higher", TRUE)>>, <<>>)
ScenarioUser == [price |-> PyFloat(Rat(19999, 100)), wattage |-> PyInt(2000)]
ScenarioRaw ==
    [price |-> PyStr("$249.99"), wattage |-> ValueUnit(PyInt(2000), PyStr("W"))]

\* the scenario's schema and its variations in type and unit
ExtractFieldLists ==
    {<<FieldDefinition("price", "decimal", up, "lower", TRUE),
       FieldDefinition("wattage", tw, uw, "higher", TRUE)>> :
        up \in {"USD", ""}, tw \in {"integer", "decimal"}, uw \in {"W", "kW"}}

RawPrices ==
    {PyStr("$249.99"), PyStr("USD 249.99"), PyStr("1,299"), PyStr("call us"),
     PyStr("null"), None, PyFloat(Rat(24999, 100)), PyInt(150),
     ValueUnit(PyInt(250), PyStr("USD"))}
RawWattages ==
    {ValueUnit(PyInt(2000), PyStr("W")), ValueUnit(PyInt(2), PyStr("kW")),
     ValueUnit(PyStr("2 kW"), None), ValueUnit(None, PyStr("W")),
     PyDict([unit |-> PyStr("W")]), PyStr("2000W"), PyStr("1.5 kW"),
     PyStr("2000 watts max"), PyInt(1800), PyStr("n/a")}
RawNames == {PyStr("Kettle Pro 2000"), PyStr("null"), PyInt(7)}
\* the objects of the model: each key with one of its values or missing
Missing == [t |-> "missing", v |-> <<>>]
Present(d) == [k \in {j \in DOMAIN d : d[j] # Missing} |-> d[k]]
JsonObjects ==
    {Present(d) : d \in [price : RawPrices \cup {Missing},
                         wattage : RawWattages \cup {Missing},
                         name : RawNames \cup {Missing}]}

\* the page: no title at all, a title element, or only a second-level heading
Pages ==
    {[first_title |-> "", last_title |-> ""],
     [first_title |-> "Acme Kettle", last_title |-> "Acme Kettle"],
     [first_title |-> "Acme Kettle", last_title |-> ""]}

\* one field of any name, type, unit and requiredness, alone or followed by
\* a declared text field name
FieldNames == {"price", "sale_price", "power"}
FieldUnits == {"", "USD", "W", "kg"}
NameField == FieldDefinition("name", "text", "", "higher", FALSE)
OneFieldLists ==
    {<<FieldDefinition(n, ty, u, "higher", req)>> \o declared :
        n \in FieldNames, ty \in FieldTypes, u \in FieldUnits, req \in BOOLEAN,
        declared \in {<<>>, <<NameField>>}}

\* the raw values of the field: null and its stand-ins, amounts with and
\* without a unit, plain text, numbers
RawFieldValues ==
    {None, PyStr("null"), PyStr("none"), PyStr("n/a"), PyStr(""),
     PyStr("$1,299.99"), PyStr("2 kW"), PyStr("5 lbs"), PyStr("Model 500 Pro"),
     ValueUnit(PyFloat(Rat(3, 2)), PyStr("kW")), ValueUnit(PyInt(5), PyStr("lbs")),
     ValueUnit(PyInt(1500), PyStr("W")), PyInt(3), PyBool(TRUE)}
RawFieldNames == {PyStr("Kettle Pro 2000"), PyStr(" Acme 7 "), PyStr("null"), PyStr("")}
TitledPage == [first_title |-> "Acme Kettle", last_title |-> "Acme Kettle"]

\* the scenario's family of schemas with every object and page, and the
\* one-field schemas with every value of the field and of the name
InitExtract ==
    /\ pc = "start"
    /\ user_data = ScenarioUser
    /\ competitor_data = EmptyDict
    /\ formula = ""
    /\ result = NoValue
    /\ comparison_results = <<>>
    /\ price_history = <<>>
    /\ \/ /\ schema \in {ProductSchema(fs, <<>>) : fs \in ExtractFieldLists}
          /\ raw \in JsonObjects
          /\ collab \in Pages
       \/ /\ schema \in {ProductSchema(fs, <<>>) : fs \in OneFieldLists}
          /\ raw \in {Present((schema.fields[1].name :> v) @@ ("name" :> nm)) :
                         v \in RawFieldValues \cup {Missing},
                         nm \in RawFieldNames \cup {Missing}}
          /\ collab = TitledPage

\* extract_from_content on the object: the record of the competitor, or the
\* exception
Returned(r) ==
    /\ pc' = IF r.ok THEN "extracted" ELSE "failed"
    /\ competitor_data' = IF r.ok THEN r.val ELSE competitor_data
    /\ result' = r.val
ExtractFromContent ==
    /\ pc = "start"
    /\ Returned(extract_from_content(raw, schema, collab))
    /\ UNCHANGED <<schema, user_data, formula, raw, collab,
                 comparison_results, price_history>>

\* compare on the user's record and the extracted one
CompareExtracted ==
    /\ pc = "extracted"
    /\ pc' = "compared"
    /\ result' = compare(user_data, competitor_data, schema)
    /\ UNCHANGED <<schema, user_data, competitor_data, formula, raw, collab,
                 comparison_results, price_history>>

NextExtract == ExtractFromContent \/ CompareExtracted

SpecExtract == InitExtract /\ [][NextExtract]_vars

Scenario == schema = ScenarioSchema /\ user_data = ScenarioUser /\ raw = ScenarioRaw

\* the normalised record of the scenario, on the fields of the schema
ScenarioNormalized ==
    /\ DOMAIN competitor_data \ {"name"} = {"price", "wattage"}
    /\ competitor_data.price = PyFloat(Rat(24999, 100))
    /\ competitor_data.wattage = PyInt(2000)

Outcome(field_name, advantage, alert) ==
    /\ field_name \in DOMAIN result.fields
    /\ result.fields[field_name].advantage = advantage
    /\ result.fields[field_name].alert = alert

\* C2 as stated: in the scenario (schema price: decimal, USD, lower is
\* better, wattage: integer, W, higher is better; user {price: 199.99,
\* wattage: 2000}; raw extraction {price: "$249.99", wattage: {value: 2000,
\* unit: "W"}}) normalisation yields {price: 249.99, wattage: 2000} and the
\* comparison yields price = competitor advantage with a red alert and
\* wattage = equal without alert.
C2_ScenarioCompetitorAhead ==
    Scenario =>
        /\ pc \in {"extracted", "compared"} => ScenarioNormalized
        /\ pc = "compared" =>
              /\ Outcome("price", "competitor", PyStr("red"))
              /\ Outcome("wattage", "equal", None)

\* C2, amended: in the same scenario normalisation yields {price: 249.99,
\* wattage: 2000} and the comparison yields price = user advantage without
\* alert (the competitor's 249.99 is above the user's 199.99 and lower is
\* better) and wattage = equal without alert.
C2_ScenarioUserAhead ==
    Scenario =>
        /\ pc \in {"extracted", "compared"} => ScenarioNormalized
        /\ pc = "compared" =>
              /\ Outcome("price", "user", None)
              /\ Outcome("wattage", "equal", None)

\* the scenario, extracted and compared
C2_Witness == Scenario /\ pc = "compared" /\ DOMAIN result.fields = {"price", "wattage"}

\* the schema fields that the raw object has a value for
RawFields == {f \in FieldsOf(schema) : f.name \in DOMAIN raw}
NumericFields == {f \in FieldsOf(schema) : f.type \in NumericTypes}

\* C16: for any raw object and schema, the record the normaliser returns
\* holds, for every integer or decimal schema field it contains, a number or
\* null, never a string or a {value, unit} object.
C16_NumericOrNull ==
    pc = "extracted" =>
        \A f \in NumericFields :
            f.name \in DOMAIN competitor_data =>
                competitor_data[f.name].t \in {"int", "float", "none"}

\* a string on an integer field comes out as the number in it, and one
\* without a number as null
C16_Witness ==
    /\ pc = "extracted"
    /\ Len(schema.fields) = 1
    /\ schema.fields[1].name = "power" /\ schema.fields[1].type = "integer"
    /\ schema.fields[1].required
    /\ "power" \in DOMAIN raw /\ "power" \in DOMAIN competitor_data
    /\ \/ raw.power = PyStr("Model 500 Pro") /\ competitor_data.power = PyInt(500)
       \/ raw.power = PyStr("n/a") /\ competitor_data.power = None

NullSentinels == {None, PyStr("null"), PyStr("none"), PyStr("n/a"), PyStr("")}

\* C17: for every schema field, of any declared type, whose raw value is
\* null or one of the strings "null", "none", "n/a" and "", the normalised
\* record holds null for the field when it is required and has no entry for
\* it when it is optional.  The field called name, which the extraction
\* fills in by other means, is left out.
C17_SentinelsNulled ==
    pc = "extracted" =>
        \A f \in RawFields :
            raw[f.name] \in NullSentinels /\ f.name # "name" =>
                IF f.required
                THEN f.name \in DOMAIN competitor_data /\ competitor_data[f.name] = None
                ELSE f.name \notin DOMAIN competitor_data

\* a field that is price-like: its name contains "price" or its unit is USD
\* or currency
PriceLike(f) == Contains(lower(f.name), "price") \/ upper(f.unit) \in {"USD", "CURRENCY"}

\* the number a price string stands for once currency signs and thousands
\* separators are stripped
PriceOfString(s) == FloatOfStr(Replace(Replace(s, "$", ""), ",", ""))

\* a rational as the number of a field of the given type
Coerced(type, r) == IF type = "decimal" THEN PyFloat(r) ELSE PyInt(RTrunc(r))

\* C18: a string raw value on a numeric field that is price-like, by its
\* name containing "price" or by its unit USD or currency, is parsed with
\* the currency signs and thousands separators stripped, "$1,299.99" giving
\* 1299.99; the leading numeric token is extracted only for the other fields.
C18_PriceLikeParsed ==
    pc = "extracted" =>
        \A f \in RawFields \cap NumericFields :
            PriceLike(f) /\ raw[f.name].t = "str" /\ PriceOfString(raw[f.name].v).ok =>
                /\ f.name \in DOMAIN competitor_data
                /\ competitor_data[f.name] = Coerced(f.type, PriceOfString(raw[f.name].v).val)

\* the amount and the unit a raw value carries: those of a {value, unit}
\* object with a number and a unit, or the leading number of a string (of
\* the type of the field) and the unit that follows it; the unit is "" when the value carries none
CarriedUnit(x) ==
    IF x.t = "dict"
    THEN IF DOMAIN x.v = {"value", "unit"} /\ IsNumber(x.v.value) /\ x.v.unit.t = "str"
         THEN x.v.unit.v ELSE ""
    ELSE IF x.t = "str" /\ SearchDecimal(x.v) # "" THEN extract_unit_from_string(x.v)
    ELSE ""
CarriedAmount(f, x) ==
    IF x.t = "dict" THEN x.v.value
    ELSE IF f.type = "decimal" THEN PyFloat(DecimalLiteral(SearchDecimal(x.v)))
    ELSE PyInt(NatOf(SearchInt(x.v)))

\* the value the claim gives a field of unit U for the amount v of unit V
MismatchValue(f, v, V) ==
    IF are_units_compatible(V, f.unit)
    THEN Coerced(f.type, NumOf(convert(v, V, f.unit).val))
    ELSE Coerced(f.type, NumOf(v))

\* C19: for a numeric field with declared unit U whose raw value v carries a
\* unit V that normalises differently from U, the normalised value is
\* convert(v, V, U) coerced to the field type when V and U are compatible,
\* and v itself coerced to the field type when they are not; the field is
\* never removed or nulled for a unit mismatch.
C19_UnitMismatch ==
    pc = "extracted" =>
        \A f \in RawFields \cap NumericFields :
            /\ f.unit # ""
            /\ CarriedUnit(raw[f.name]) # ""
            /\ normalize_unit(CarriedUnit(raw[f.name])) # normalize_unit(f.unit)
            => /\ f.name \in DOMAIN competitor_data
               /\ competitor_data[f.name] =
                     MismatchValue(f, CarriedAmount(f, raw[f.name]), CarriedUnit(raw[f.name]))

\* a raw name that is a string, not empty and not a stand-in for null
NamedRaw ==
    /\ "name" \in DOMAIN raw
    /\ raw.name.t = "str"
    /\ Strip(raw.name.v) # ""
    /\ lower(Strip(raw.name.v)) \notin NoTitles

C29_TextUnchanged ==
    pc = "extracted" =>
        \A f \in RawFields :
            /\ f.type = "text" /\ f.name # "name" /\ ~PriceLike(f)
            /\ raw[f.name].t = "str" /\ raw[f.name] \notin NullSentinels
            => /\ f.name \in DOMAIN competitor_data
               /\ competitor_data[f.name] = raw[f.name]

(***************************************************************************)
(* The dashboard summary of some comparison results and a price history.   *)
(***************************************************************************)
\* the comparison of a listing: none or both of the fields Sale_Price and
\* weight, each with any alert, and at most one metric
AlertValues == {Red, Yellow, None}
AlertFieldLists ==
    {<<>>} \cup {<<[name |-> "Sale_Price", alert |-> p], [name |-> "weight", alert |-> w]>> :
                    p \in AlertValues, w \in AlertValues}
AlertMetricLists == {<<>>} \cup {<<[name |-> "ratio", alert |-> a]>> : a \in {Red, Yellow}}
AlertComparisons ==
    {[fields |-> fs, metrics |-> ms] : fs \in AlertFieldLists, ms \in AlertMetricLists}

Result(listing_id, comparison) == [listing_id |-> listing_id, comparison |-> comparison]

\* no result, one of listing L1, or one of L1 and one of L1 or L2
AlertResults ==
    {<<>>} \cup {<<Result("L1", c)>> : c \in AlertComparisons}
           \cup {<<Result("L1", c), Result(id, d)>> :
                    c \in AlertComparisons, d \in AlertComparisons, id \in {"L1", "L2"}}

Fields(p, w) == <<[name |-> "Sale_Price", alert |-> p], [name |-> "weight", alert |-> w]>>
FewResults ==
    {<<>>,
     <<Result("L1", [fields |-> Fields(Red, None), metrics |-> <<>>])>>,
     <<Result("L1", [fields |-> Fields(None, Yellow), metrics |-> <<>>])>>,
     <<Result("L1", [fields |-> Fields(Red, None), metrics |-> <<>>]),
       Result("L2", [fields |-> Fields(None, Yellow), metrics |-> <<>>])>>}

Timestamps == {"2024-01-09", "2024-01-10", "2024-02-01"}
PriceData ==
    {[price |-> PyInt(n)] : n \in 0..MaxNum}
        \cup {[PRICE |-> PyInt(MaxNum)], [price |-> PyStr("x")], EmptyDict}
PriceRecords ==
    {[listing_id |-> id, recorded_at |-> at, data |-> d] :
        id \in {"L1", "L2"}, at \in Timestamps, d \in PriceData}

\* up to three records, in any order, no two of the same time
Histories ==
    {<<>>} \cup {<<r>> : r \in PriceRecords}
           \cup {h \in [1..2 -> PriceRecords] : h[1].recorded_at # h[2].recorded_at}
           \cup {h \in [1..3 -> PriceRecords] :
                    Cardinality({h[i].recorded_at : i \in 1..3}) = 3}

\* every list of results without history, and every history with four lists
\* of results
InitAlert ==
    /\ pc = "start"
    /\ schema = NoSchema
    /\ user_data = EmptyDict
    /\ competitor_data = EmptyDict
    /\ formula = ""
    /\ raw = EmptyDict
    /\ collab = NoCollab
    /\ result = NoValue
    /\ \/ comparison_results \in AlertResults /\ price_history = <<>>
       \/ comparison_results \in FewResults /\ price_history \in Histories

CalculateSummary ==
    /\ pc = "start"
    /\ pc' = "summarized"
    /\ result' = calculate_summary(comparison_results, price_history)
    /\ UNCHANGED <<schema, user_data, competitor_data, formula, raw, collab,
                   comparison_results, price_history>>

NextAlert == CalculateSummary

SpecAlert == InitAlert /\ [][NextAlert]_vars

\* the results of a listing, and its alerts of a colour on the fields that
\* satisfy a test of their name
ResultsOf(id) == {r \in ListSet(comparison_results) : r.listing_id = id}
PriceNamed(entry) == Contains(lower(entry.name), "price")
OtherNamed(entry) == ~PriceNamed(entry)
HasFieldAlert(id, colour, Named(_)) ==
    \E r \in ResultsOf(id) : \E e \in ListSet(r.comparison.fields) :
        e.alert = colour /\ Named(e)
HasMetricAlert(id, colour) ==
    \E r \in ResultsOf(id) : \E e \in ListSet(r.comparison.metrics) : e.alert = colour

\* the listings with a red alert on a field whose name contains "price"
RedPriceListings ==
    {id \in Listings(comparison_results) : HasFieldAlert(id, Red, PriceNamed)}
\* the listings with a red alert on another field, or a yellow alert on any
\* field or metric
SpecDisadvantageListings ==
    {id \in Listings(comparison_results) :
        \/ HasFieldAlert(id, Red, OtherNamed)
        \/ HasFieldAlert(id, Yellow, PriceNamed)
        \/ HasFieldAlert(id, Yellow, OtherNamed)
        \/ HasMetricAlert(id, Yellow)}

\* C13: with no price history, price_drops.count is the number of distinct
\* listings with a red alert on a field whose name contains "price",
\* spec_disadvantages.count the number of distinct listings with a red alert
\* on another field or a yellow alert on any field or metric, and
\* price_increases.count is 0.
C13_CountsWithoutHistory ==
    pc = "summarized" /\ price_history = <<>> =>
        /\ result.summary.price_drops.count = Cardinality(RedPriceListings)
        /\ result.summary.spec_disadvantages.count = Cardinality(SpecDisadvantageListings)
        /\ result.summary.price_increases.count = 0

\* one listing with a red price alert and one with a yellow spec alert give
\* the counts 1, 1, 0
C13_Witness ==
    /\ pc = "summarized"
    /\ price_history = <<>>
    /\ comparison_results =
          <<Result("L1", [fields |-> Fields(Red, None), metrics |-> <<>>]),
            Result("L2", [fields |-> Fields(None, Yellow), metrics |-> <<>>])>>
    /\ result.summary.price_drops.count = 1
    /\ result.summary.spec_disadvantages.count = 1
    /\ result.summary.price_increases.count = 0

\* the listings of the price history and the records of one of them
HistoryListings == {price_history[i].listing_id : i \in 1..Len(price_history)}
RecordsOf(id) == {r \in ListSet(price_history) : r.listing_id = id}
Earliest(id) ==
    CHOOSE r \in RecordsOf(id) :
        \A o \in RecordsOf(id) : ~StrLess(o.recorded_at, r.recorded_at)
Latest(id) ==
    CHOOSE r \in RecordsOf(id) :
        \A o \in RecordsOf(id) : ~StrLess(r.recorded_at, o.recorded_at)
NumericPrice(r) == IsNumber(PriceOf(r.data))
Tracked(id) == Cardinality(RecordsOf(id)) >= 2
Rising(id) ==
    Tracked(id) /\ RLt(NumOf(PriceOf(Earliest(id).data)), NumOf(PriceOf(Latest(id).data)))
Falling(id) ==
    Tracked(id) /\ RLt(NumOf(PriceOf(Latest(id).data)), NumOf(PriceOf(Earliest(id).data)))

\* C14: for every listing with at least two price-history records, in
\* whatever order they are supplied, calculate_summary compares the price of
\* the earliest record with the price of the latest one, for any numeric
\* prices, zero included: the listing counts as a price increase iff latest
\* > earliest and as a price drop iff latest < earliest, and a listing that
\* is already a price drop from its comparison is not counted twice.  Stated
\* on the counts, for histories whose earliest and latest prices are numbers.
C14_FirstToLastTrend ==
    pc = "summarized"
        /\ (\A id \in HistoryListings :
               Tracked(id) => NumericPrice(Earliest(id)) /\ NumericPrice(Latest(id))) =>
        /\ result.summary.price_increases.count =
              Cardinality({id \in HistoryListings : Rising(id)})
        /\ result.summary.price_drops.count =
              Cardinality(RedPriceListings \cup {id \in HistoryListings : Falling(id)})

\* the lists of the call: what calculate_summary classifies each listing as
Classified ==
    PriceTrends(price_history, ListingIds(price_history, 1, <<>>), 1,
                AnalyzeResults(comparison_results, 1, NoAlerts))
ClaimedSeverity(id) ==
    IF id \in ListSet(Classified.price_drops) /\ id \in ListSet(Classified.spec_disadvantages)
    THEN "high"
    ELSE IF id \in ListSet(Classified.price_drops)
              \/ id \in ListSet(Classified.spec_disadvantages)
    THEN "medium"
    ELSE "low"

\* C15: the severity calculate_summary returns for a listing of the
\* comparison results is high iff the listing is both a price drop and a
\* spec disadvantage as classified for the counts of the same call, medium
\* iff it is exactly one of the two, low iff it is neither.
C15_SeverityFollowsCounts ==
    pc = "summarized" =>
        \A a \in result.listing_alerts : a.severity = ClaimedSeverity(a.listing_id)

\* the magnitude of a percentage is between 0 and 100
WithinHundred(x) ==
    /\ RLe(RInt(0 - 100), NumOf(x))
    /\ RLe(NumOf(x), RInt(100))

\* C30: in every summary each of the three counts is at most the number of
\* distinct listings of the comparison results, so each percentage is
\* between 0 and 100 in magnitude, that of the price drops between -100 and
\* 0, for any comparison results and any price history.
C30_CountsWithinListings ==
    pc = "summarized" =>
        /\ \A k \in {"price_drops", "spec_disadvantages", "price_increases"} :
              /\ result.summary[k].count <= Cardinality(Listings(comparison_results))
              /\ WithinHundred(result.summary[k].percentage_change)
        /\ RLe(NumOf(result.summary.price_drops.percentage_change), RInt(0))
        /\ RLe(RInt(0), NumOf(result.summary.spec_disadvantages.percentage_change))
        /\ RLe(RInt(0), NumOf(result.summary.price_increases.percentage_change))

====
